---- MODULE Spec2Model ----
(***************************************************************************)
(* A model of the document context of packages/docregistry/src/context.ts  *)
(* (Private.Context, Private.saveModel, Private.loadModel,                 *)
(* Private.updateModel) together with the contents service it talks to.    *)
(*                                                                         *)
(* Every storage call is asynchronous.  A call is issued by the client     *)
(* step that reaches it, it is served by the storage service in a step of  *)
(* its own (Serve...), and its response is handled by one more client step *)
(* (Handle...).  A client step runs the promise continuation that receives *)
(* the response together with every continuation chained on it, up to the  *)
(* next storage call or dialog.                                            *)
(***************************************************************************)
EXTENDS Integers, Sequences, FiniteSets, TLC

\* ------------------------------------------------------------------ bounds

\* Number of context operations that may be in flight at the same time.
MaxOps == 2

\* Number of operations the callers of the context start.
MaxCalls == 2

\* Number of events the environment contributes: writes and deletions by
\* other clients, renames, session path changes, failing storage calls.
MaxEvents == 1

\* Number of checkpoints the storage service hands out ids for.
MaxCheckpoints == 2

\* The storage clock at the start (milliseconds).
StartTime == 1000

\* ------------------------------------------------------- program constants

\* The tolerated difference between disk and client time stamps, in ms.
Tolerance == 500

\* --------------------------------------------------------------- universes

Paths == {"a", "b"}

OpIds == 1..MaxOps

\* Steps by which a write of another client advances last_modified.
Deltas == {Tolerance - 100, Tolerance, Tolerance + 100}

\* The time a request of the context takes to reach the disk.
WriteTime == Tolerance + 100

\* File contents are sequences of characters.
DiskContents == { <<"a">>, <<"b", "\r", "\n", "c", "\r">> }

EditContents == { <<"e">> }

\* Response status of a failed storage call, besides the 404 of a missing file.
FailStatuses == {403, 500}

SaveErrorTitle == "File Save Error"

LoadErrorTitle == "File Load Error"

\* An absent contents model (the value `undefined`).
NoMeta == [path |-> "", lm |-> 0, wr |-> FALSE]

NoFile == [exists |-> FALSE, content |-> <<>>, lm |-> 0, wr |-> FALSE,
           ckpts |-> <<>>, writer |-> "none"]

NoOp == [kind |-> "none", api |-> "none", pc |-> "idle", tpath |-> "", body |-> <<>>,
         st |-> 0, meta |-> NoMeta, cks |-> <<>>, held |-> NoMeta,
         choice |-> "", reports |-> {}, outcome |-> "pending",
         newer |-> FALSE, conflict |-> FALSE, wrote |-> FALSE, ckpt |-> FALSE,
         lost |-> FALSE, known |-> FALSE, late |-> FALSE,
         afterMove |-> FALSE, listed |-> FALSE]

VARIABLES
    files,            \* the storage service: path -> file
    clock,            \* the storage service's clock
    nextId,           \* the next checkpoint id the service assigns
    events,           \* environment events so far
    path,             \* Context._path
    content,          \* the model's content (model.toString())
    dirty,            \* model.dirty
    contentsModel,    \* Context._contentsModel
    hasCheckpointed,  \* Context._hasCheckpointed
    isDisposed,       \* Context._isDisposed
    calls,            \* operations started so far
    sessionPath,      \* session.path
    collaborative,    \* model.modelDB.isCollaborative
    fileFormat,       \* the model factory's fileFormat
    persisted,        \* history: the content last written to or fetched from storage
    made,             \* history: checkpoints created by save()
    writes,           \* history: contents.save calls the service has performed
    moved,            \* history: the path of the context has changed
    pathChanged,      \* history: the paths Context._pathChanged has emitted
    ops,              \* the operations in flight: one record per promise chain
    contexts,         \* DocumentManager._contexts: the table, as context ids
    ctxs,             \* the contexts the manager has created, by id
    isActive,         \* SaveHandler._isActive
    handlerDisposed,  \* SaveHandler._isDisposed
    minInterval,      \* SaveHandler._minInterval (ms)
    interval,         \* SaveHandler._interval (ms)
    autosaveTimer,    \* SaveHandler._autosaveTimer: the handle last stored
    timers,           \* window timers: handle -> delay of a pending timer, 0 if none
    readOnly,         \* model.readOnly
    autosaves,        \* the save() calls of the handler that are in flight
    duration,         \* history: the duration the handler measured last
    pending,          \* CellCompleterHandler._pending
    completerDisposed,\* CellCompleterHandler: _completer === null
    completerModel,   \* the model of the completer widget
    requests,         \* completion requests the kernel has not answered
    replied,          \* history: the requests answered, in order
    queueOutstanding, \* PromiseQueue._outstanding, as call ids
    queueCalls,       \* PromiseQueue: the execute() calls, by id
    chainOutstanding, \* PromiseChain._outstanding: a call id, 0 for null
    delegates,        \* PromiseChain: the delegate of each execute() call
    chainCalls        \* PromiseChain: the callback of each execute() call

vars == <<files, clock, nextId, events, calls, path, content, dirty, contentsModel,
          hasCheckpointed, isDisposed, sessionPath, collaborative, fileFormat, persisted,
          made, writes, moved, pathChanged, ops,
          contexts, ctxs,
          isActive, handlerDisposed, minInterval, interval, autosaveTimer,
          timers, readOnly, autosaves, duration,
          pending, completerDisposed, completerModel, requests, replied,
          queueOutstanding, queueCalls,
          chainOutstanding, delegates, chainCalls>>

storageVars == <<files, clock, nextId, events, made, writes, calls>>

managerVars == <<contexts, ctxs>>

handlerVars == <<isActive, handlerDisposed, minInterval, interval,
                 autosaveTimer, timers, readOnly, autosaves, duration>>

contextVars == <<path, content, dirty, contentsModel, hasCheckpointed,
                 isDisposed, sessionPath, collaborative, fileFormat, persisted, moved, pathChanged>>

completerVars == <<pending, completerDisposed, completerModel, requests,
                   replied>>

queueVars == <<queueOutstanding, queueCalls>>

chainVars == <<chainOutstanding, delegates, chainCalls>>

\* What stands beside a context, its manager and its save handler.
utilVars == <<completerVars, queueVars, chainVars>>

\* ----------------------------------------------------------- pure helpers

\* content.indexOf('\r') !== -1
HasCR(s) == \E i \in 1..Len(s) : s[i] = "\r"

\* Variant: every \r is replaced on its own, so \r\n becomes \n\n.
ReplaceCRLone(s) == [i \in 1..Len(s) |-> IF s[i] = "\r" THEN "\n" ELSE s[i]]

\* content.replace(/\r\n|\r/g, '\n'): the regular expression is matched from
\* left to right, \r\n first, then a lone \r.
RECURSIVE ReplaceCR(_)
ReplaceCR(s) ==
    IF s = <<>> THEN <<>>
    ELSE IF Head(s) = "\r"
         THEN IF Len(s) >= 2 /\ s[2] = "\n"
              THEN <<"\n">> \o ReplaceCR(SubSeq(s, 3, Len(s)))
              ELSE <<"\n">> \o ReplaceCR(Tail(s))
         ELSE <<Head(s)>> \o ReplaceCR(Tail(s))

\* The contents model the service returns for a file.
MetaOf(p, f) == [path |-> p, lm |-> f.lm, wr |-> f.wr]

\* Variant: the tolerance is taken twice.
IsConflictLate(modified, tDisk) ==
    modified # 0 /\ (tDisk - modified) > 2 * Tolerance

\* Variant: the comparison is >= instead of >.
IsConflictInclusive(modified, tDisk) ==
    modified # 0 /\ (tDisk - modified) >= Tolerance

\* (tDisk.getTime() - tClient.getTime()) > 500, guarded by `modified &&`.
IsConflict(modified, tDisk) == modified # 0 /\ (tDisk - modified) > Tolerance

\* The declared file format of the model factory (factory.fileFormat).
FileFormat == "text"

\* Variant: the line endings are left as they are.
UpdatedContentRaw(format, c) == c

\* Private.updateModel: the content the model receives.
UpdatedContent(format, c) ==
    IF format = "json" THEN c
    ELSE IF HasCR(c) THEN ReplaceCR(c) ELSE c

\* Private.updateModel: the value assigned to model.dirty.
UpdatedDirty(format, c) ==
    IF format = "json" THEN FALSE ELSE HasCR(c)

\* Variant: the cached contents model loses the time of the last modification.
UpdatedContentsModelUntimed(m) == [path |-> m.path, lm |-> 0, wr |-> m.wr]

\* Context._updateContentsModel: the new cached contents model.
UpdatedContentsModel(m) == [path |-> m.path, lm |-> m.lm, wr |-> m.wr]

\* Most contexts a document manager creates.
MaxContexts == 3

\* Most widgets open on one context.
MaxWidgets == 2

CtxIds == 1..MaxContexts

\* The model factories of the registry, by name.
Factories == {"text", "notebook"}

\* A context that has not been created.
NoContext == [path |-> "", factoryName |-> "", isDisposed |-> FALSE,
              ready |-> FALSE, populated |-> 0, saved |-> 0, widgets |-> 0]

\* A document manager right after its construction; also the manager of a
\* context that is studied on its own.
NoManager ==
    /\ contexts = <<>>
    /\ ctxs = [c \in CtxIds |-> NoContext]

\* Most window timers pending at a time.
MaxTimers == 2

TimerIds == 1..MaxTimers

\* options.saveInterval || 120, in seconds.
DefaultSaveInterval == 120

\* SaveHandler._multiplier.
Multiplier == 10

\* SaveHandler._inDialog: initialised to false and assigned nowhere.
InDialog == FALSE

\* A save handler right after its construction; also the handler of a
\* context whose handler is left out.
NoHandler ==
    /\ isActive = FALSE
    /\ handlerDisposed = FALSE
    /\ minInterval = DefaultSaveInterval * 1000
    /\ interval = DefaultSaveInterval * 1000
    /\ autosaveTimer = -1
    /\ timers = [h \in TimerIds |-> 0]
    /\ readOnly = FALSE
    /\ autosaves = {}
    /\ duration = 0

\* Most completion requests a handler makes.
MaxRequests == 3

\* Most execute() calls on a promise queue or a promise chain.
MaxExecutes == 3

RequestIds == 1..MaxRequests

ExecuteIds == 1..MaxExecutes

\* A completer model without a completion.
NoCompletion == [original |-> 0, options |-> {}]

\* An execute() call that was not made.
NoExecute == [state |-> "none", after |-> {}, outcome |-> "none"]

\* A delegate that was not created.
NoDelegate == [state |-> "none", value |-> 0]

\* A completer handler, a promise queue and a promise chain right after
\* their construction; also those that are left out of a study.
NoUtil ==
    /\ pending = 0
    /\ completerDisposed = FALSE
    /\ completerModel = NoCompletion
    /\ requests = {}
    /\ replied = <<>>
    /\ queueOutstanding = <<>>
    /\ queueCalls = [k \in ExecuteIds |-> NoExecute]
    /\ chainOutstanding = 0
    /\ delegates = [k \in ExecuteIds |-> NoDelegate]
    /\ chainCalls = [k \in ExecuteIds |-> NoExecute]

\* What stands beside a save handler and its context.
besideVars == <<managerVars, utilVars>>

\* The step is one of the context alone.
Quiet == UNCHANGED <<managerVars, handlerVars, utilVars>>

\* -------------------------------------------------------------- initial state

\* The state after createModel (Private.loadModel) and createContext
\* (contents.get(path, {content: false}), then new Private.Context).
Init ==
    \E c0 \in DiskContents, w \in BOOLEAN, old \in BOOLEAN, col \in BOOLEAN :
        /\ files = [p \in Paths |->
                      IF p = "a"
                      THEN [exists |-> TRUE, content |-> c0, lm |-> StartTime,
                            wr |-> w,
                            ckpts |-> IF old THEN <<[id |-> 0, content |-> c0]>>
                                      ELSE <<>>,
                            writer |-> "ext"]
                      ELSE NoFile]
        /\ clock = StartTime
        /\ nextId = 1
        /\ events = 0
        /\ path = "a"
        /\ fileFormat = FileFormat
        /\ content = UpdatedContent(FileFormat, c0)
        /\ dirty = UpdatedDirty(FileFormat, c0)
        /\ contentsModel = [path |-> "a", lm |-> StartTime, wr |-> w]
        /\ hasCheckpointed = FALSE
        /\ isDisposed = FALSE
        /\ calls = 0
        /\ sessionPath = "a"
        /\ collaborative = col
        /\ persisted = c0
        /\ made = 0
        /\ writes = 0
        /\ moved = FALSE
        /\ pathChanged = <<>>
        /\ ops = [o \in OpIds |-> NoOp]
        /\ NoManager
        /\ NoHandler
        /\ NoUtil

\* ------------------------------------------------------- operation plumbing

\* The record of a promise chain that starts now.  `late` and `afterMove` are
\* history: the context was already disposed, or its path had already
\* changed, when the operation was called.  `listed` is history too: the
\* checkpoint the operation restores was taken from a list.
NewOp == [NoOp EXCEPT !.late = isDisposed, !.afterMove = moved]

SetOp(o, r) == ops' = [ops EXCEPT ![o] = r]

\* One more operation is started.
Called ==
    /\ calls < MaxCalls
    /\ calls' = calls + 1

\* A new promise chain takes the first free slot.
Free(o) ==
    /\ ops[o].kind = "none"
    /\ \A k \in OpIds : k < o => ops[k].kind # "none"

Waiting(o, kind, pc) ==
    /\ ops[o].kind = kind
    /\ ops[o].pc = pc
    /\ ops[o].st # 0

\* A settled promise chain holds no request, response or closure any more.
Settled(op) ==
    [op EXCEPT !.pc = "done", !.tpath = "", !.body = <<>>, !.st = 0,
               !.meta = NoMeta, !.cks = <<>>, !.held = NoMeta]

\* The promise of the operation fulfils.
Fulfilled(op) == [Settled(op) EXCEPT !.outcome = "fulfilled"]

\* The promise of the operation rejects: the failure reaches the caller.
Rejected(op) == [Settled(op) EXCEPT !.outcome = "rejected"]

\* Context._handleError: the failure is shown in a dialog with this title.
HandleError(op, title) == [op EXCEPT !.reports = @ \cup {title}]

\* Private.saveModel: the model is serialized when the request is issued.
SaveModel(op) ==
    [op EXCEPT !.pc = "write", !.tpath = path, !.body = content, !.st = 0]

\* Variant: the guard forgets the flag.
SkipsCheckpointUnguarded(writable, checkpointed) == ~writable

\* Context._maybeCheckpoint, up to its first storage call:
\* `if (!writable || this._hasCheckpointed) return Promise.resolve()`.
SkipsCheckpoint(writable, checkpointed) == ~writable \/ checkpointed

\* Context._save: _maybeCheckpoint().then(() => Private.saveModel(...)).
BeginSave(op) ==
    IF SkipsCheckpoint(contentsModel.wr, hasCheckpointed)
    THEN SaveModel(op)
    ELSE [op EXCEPT !.pc = "list", !.tpath = path, !.st = 0]

\* Variant: the failure is swallowed without a report.
SaveCatchSilent(op) == Fulfilled(op)

\* Variant: there is no .catch, the failure goes to the caller.
SaveCatchMissing(op) == Rejected(op)

\* Context.save, the .catch(err => this._handleError(err, 'File Save Error')).
SaveCatch(op) == Fulfilled(HandleError(op, SaveErrorTitle))

\* ------------------------------------------------------------------- save()

\* Context.save, up to the first storage call it issues: _maybeSave unless
\* the model is collaborative, _save if it is.
StartSave(op) ==
    LET sv == [op EXCEPT !.kind = "save"] IN
    IF collaborative
    THEN BeginSave(sv)
    ELSE [sv EXCEPT !.pc = "get", !.tpath = path, !.st = 0]

\* Context.save: the call.
CallSave(o) ==
    /\ Free(o)
    /\ SetOp(o, StartSave([NewOp EXCEPT !.api = "save"]))
    /\ Called
    /\ UNCHANGED <<files, clock, nextId, events, made, writes, contextVars>>

\* Context._maybeSave: the response of contents.get(path, {content: false}).
HandleMaybeSave(o) ==
    /\ Waiting(o, "save", "get")
    /\ LET op == ops[o] IN
       IF op.st = 200
       THEN IF isDisposed
            THEN SetOp(o, SaveCatch(op))
            ELSE LET seen == [op EXCEPT !.newer =
                                  /\ contentsModel.lm # 0
                                  /\ op.meta.lm > contentsModel.lm + Tolerance]
                 IN IF IsConflict(contentsModel.lm, op.meta.lm)
                    THEN SetOp(o, [seen EXCEPT !.pc = "dialog",
                                               !.held = op.meta,
                                               !.conflict = TRUE])
                    ELSE SetOp(o, BeginSave(seen))
       ELSE IF op.st = 404
            THEN SetOp(o, BeginSave(op))
            ELSE SetOp(o, SaveCatch(op))
    /\ UNCHANGED <<storageVars, contextVars>>

\* Variant: the continuation updates the cached contents model but leaves
\* model.dirty as it was.
SaveThenKeepsDirty(o, op, value) ==
    IF isDisposed
    THEN /\ SetOp(o, Fulfilled(op))
         /\ UNCHANGED <<dirty, contentsModel>>
    ELSE /\ dirty' = dirty
         /\ IF value = NoMeta
            THEN /\ contentsModel' = contentsModel
                 /\ SetOp(o, SaveCatch(op))
            ELSE /\ contentsModel' = UpdatedContentsModel(value)
                 /\ SetOp(o, Fulfilled(op))

\* Context.save, the .then(value => { ... }) that ends a save: `value` is what
\* _maybeSave or _save resolved with (NoMeta stands for undefined, for which
\* _updateContentsModel throws after model.dirty was assigned).
SaveThen(o, op, value) ==
    IF isDisposed
    THEN /\ SetOp(o, Fulfilled(op))
         /\ UNCHANGED <<dirty, contentsModel>>
    ELSE /\ dirty' = FALSE
         /\ IF value = NoMeta
            THEN /\ contentsModel' = contentsModel
                 /\ SetOp(o, SaveCatch(op))
            ELSE /\ contentsModel' = UpdatedContentsModel(value)
                 /\ SetOp(o, Fulfilled(op))

\* Variant: a revert leaves the cached contents model as it was.
AfterRevertKeepsModel(op) ==
    IF op.st = 200
    THEN [content   |-> UpdatedContent(fileFormat, op.body),
          dirty     |-> UpdatedDirty(fileFormat, op.body),
          cm        |-> contentsModel,
          persisted |-> op.body,
          op        |-> op]
    ELSE [content   |-> content,
          dirty     |-> dirty,
          cm        |-> contentsModel,
          persisted |-> persisted,
          op        |-> HandleError(op, LoadErrorTitle)]

\* Context.revert: Private.loadModel's continuation (updateModel), then the
\* .then of revert (_updateContentsModel unless disposed), or its .catch.
\* The result is the state the continuation leaves behind.
AfterRevert(op) ==
    IF op.st = 200
    THEN [content   |-> UpdatedContent(fileFormat, op.body),
          dirty     |-> UpdatedDirty(fileFormat, op.body),
          cm        |-> IF isDisposed THEN contentsModel
                        ELSE UpdatedContentsModel(op.meta),
          persisted |-> op.body,
          op        |-> op]
    ELSE [content   |-> content,
          dirty     |-> dirty,
          cm        |-> contentsModel,
          persisted |-> persisted,
          op        |-> HandleError(op, LoadErrorTitle)]

\* The buttons of the 'File Changed' dialog.
ConflictButtons == {"CANCEL", "REVERT", "OVERWRITE"}

\* Variant: every button but REVERT saves.
ResolutionCancelSaves(label) ==
    IF label = "REVERT" THEN "revert" ELSE "save"

\* Context._timeConflict: which continuation a dialog result selects.
Resolution(label) ==
    IF label = "OVERWRITE" THEN "save"
    ELSE IF label = "REVERT" THEN "revert"
    ELSE "none"

\* Context._timeConflict: the .then(result => ...) of showDialog.
HandleTimeConflict(o, label) ==
    /\ ops[o].kind = "save"
    /\ ops[o].pc = "dialog"
    /\ LET op == [ops[o] EXCEPT !.choice = label] IN
       IF isDisposed
       THEN /\ SetOp(o, SaveCatch(op))
            /\ UNCHANGED <<dirty, contentsModel>>
       ELSE IF Resolution(label) = "save"
            THEN /\ SetOp(o, BeginSave(op))
                 /\ UNCHANGED <<dirty, contentsModel>>
            ELSE IF Resolution(label) = "revert"
                 THEN /\ SetOp(o, [op EXCEPT !.pc = "revert", !.tpath = path,
                                             !.st = 0])
                      /\ UNCHANGED <<dirty, contentsModel>>
                 ELSE SaveThen(o, op, NoMeta)
    /\ UNCHANGED <<storageVars, path, content, hasCheckpointed, isDisposed,
                   sessionPath, collaborative, fileFormat, persisted, moved, pathChanged>>

\* Context._timeConflict, REVERT: this.revert().then(() => model), followed by
\* the .then of save.
HandleSaveRevert(o) ==
    /\ Waiting(o, "save", "revert")
    /\ LET r == AfterRevert(ops[o]) IN
        /\ content' = r.content
        /\ persisted' = r.persisted
        /\ IF isDisposed
           THEN /\ dirty' = r.dirty
                /\ contentsModel' = r.cm
           ELSE /\ dirty' = FALSE
                /\ contentsModel' = UpdatedContentsModel(ops[o].held)
        /\ SetOp(o, Fulfilled(r.op))
    /\ UNCHANGED <<storageVars, path, hasCheckpointed, isDisposed, sessionPath,
                   collaborative, fileFormat, moved, pathChanged>>

\* Variant: a 403 from listCheckpoints is a failure like any other.
HandleListForSaveStrict(o) ==
    /\ Waiting(o, "save", "list")
    /\ LET op == ops[o] IN
       IF op.st = 200
       THEN IF ~isDisposed /\ Len(op.cks) = 0 /\ contentsModel.wr
            THEN SetOp(o, [op EXCEPT !.pc = "create", !.tpath = path,
                                     !.st = 0])
            ELSE SetOp(o, SaveModel(op))
       ELSE SetOp(o, SaveCatch(op))
    /\ UNCHANGED <<storageVars, contextVars>>

\* Context._maybeCheckpoint: the response of listCheckpoints.
HandleListForSave(o) ==
    /\ Waiting(o, "save", "list")
    /\ LET op == ops[o] IN
       IF op.st = 200
       THEN IF ~isDisposed /\ Len(op.cks) = 0 /\ contentsModel.wr
            THEN SetOp(o, [op EXCEPT !.pc = "create", !.tpath = path,
                                     !.st = 0])
            ELSE SetOp(o, SaveModel(op))
       ELSE IF op.st = 403
            THEN SetOp(o, SaveModel(op))
            ELSE SetOp(o, SaveCatch(op))
    /\ UNCHANGED <<storageVars, contextVars>>

\* Context._maybeCheckpoint: the response of createCheckpoint.
HandleCreateForSave(o) ==
    /\ Waiting(o, "save", "create")
    /\ LET op == ops[o] IN
       IF op.st = 200
       THEN /\ hasCheckpointed' = TRUE
            /\ SetOp(o, SaveModel(op))
       ELSE /\ hasCheckpointed' = hasCheckpointed
            /\ IF op.st = 403
               THEN SetOp(o, SaveModel(op))
               ELSE SetOp(o, SaveCatch(op))
    /\ UNCHANGED <<storageVars, path, content, dirty, contentsModel,
                   isDisposed, sessionPath, collaborative, fileFormat, persisted, moved, pathChanged>>

\* Context.save: the response of contents.save.
HandleWrite(o) ==
    /\ Waiting(o, "save", "write")
    /\ LET op == ops[o] IN
       IF op.st = 200
       THEN /\ persisted' = op.body
            /\ SaveThen(o, op, op.meta)
       ELSE /\ persisted' = persisted
            /\ SetOp(o, SaveCatch(op))
            /\ UNCHANGED <<dirty, contentsModel>>
    /\ UNCHANGED <<storageVars, path, content, hasCheckpointed, isDisposed,
                   sessionPath, collaborative, fileFormat, moved, pathChanged>>

\* ----------------------------------------------------------------- revert()

\* Context.revert: the call; the path is read when the call is made.
CallRevert(o) ==
    /\ Free(o)
    /\ SetOp(o, [NewOp EXCEPT !.kind = "revert", !.api = "revert",
                             !.pc = "load", !.tpath = path])
    /\ Called
    /\ UNCHANGED <<files, clock, nextId, events, made, writes, contextVars>>

\* Context.revert: the response of contents.get(path, {content: true}).
HandleRevert(o) ==
    /\ Waiting(o, "revert", "load")
    /\ LET r == AfterRevert(ops[o]) IN
        /\ content' = r.content
        /\ dirty' = r.dirty
        /\ contentsModel' = r.cm
        /\ persisted' = r.persisted
        /\ SetOp(o, Fulfilled(r.op))
    /\ UNCHANGED <<storageVars, path, hasCheckpointed, isDisposed, sessionPath,
                   collaborative, fileFormat, moved, pathChanged>>

\* ----------------------------------------------------------------- saveAs()

\* The buttons of the 'File Overwrite?' dialog.
OverwriteButtons == {"CANCEL", "OVERWRITE"}

\* Context.saveAs: the call; Private.getSavePath shows the path dialog.
CallSaveAs(o) ==
    /\ Free(o)
    /\ SetOp(o, [NewOp EXCEPT !.kind = "saveAs", !.api = "saveAs",
                             !.pc = "prompt"])
    /\ Called
    /\ UNCHANGED <<files, clock, nextId, events, made, writes, contextVars>>

\* Context.saveAs: the .then(newPath => ...) of getSavePath; newPath is ""
\* when the dialog was cancelled.
HandleSavePath(o, newPath) ==
    /\ ops[o].kind = "saveAs"
    /\ ops[o].pc = "prompt"
    /\ LET op == ops[o] IN
       IF isDisposed \/ newPath = ""
       THEN SetOp(o, Fulfilled(op))
       ELSE IF newPath = path
            THEN SetOp(o, StartSave(op))
            ELSE SetOp(o, [op EXCEPT !.pc = "get", !.tpath = newPath])
    /\ UNCHANGED <<storageVars, contextVars>>

\* Context._finishSaveAs, up to session.setPath(newPath).
FinishSaveAs(op) == [op EXCEPT !.pc = "setPath", !.st = 0]

\* Context.saveAs: the response of contents.get(newPath).
HandleProbe(o) ==
    /\ Waiting(o, "saveAs", "get")
    /\ LET op == ops[o] IN
       IF op.st = 200
       THEN /\ SetOp(o, [op EXCEPT !.pc = "overwrite", !.st = 0,
                                   !.meta = NoMeta])
            /\ path' = path
       ELSE IF op.st = 404
            THEN /\ SetOp(o, FinishSaveAs(op))
                 /\ path' = op.tpath
            ELSE /\ SetOp(o, Rejected(op))
                 /\ path' = path
    /\ UNCHANGED <<storageVars, content, dirty, contentsModel,
                   hasCheckpointed, isDisposed, sessionPath, collaborative, fileFormat,
                   persisted, moved, pathChanged>>

\* Variant: the destination is deleted whatever button was chosen.
HandleMaybeOverWriteAlways(o, label) ==
    /\ ops[o].kind = "saveAs"
    /\ ops[o].pc = "overwrite"
    /\ LET op == [ops[o] EXCEPT !.choice = label] IN
       IF isDisposed
       THEN SetOp(o, Rejected(op))
       ELSE SetOp(o, [op EXCEPT !.pc = "delete", !.st = 0])
    /\ UNCHANGED <<storageVars, contextVars>>

\* Context._maybeOverWrite: the .then(result => ...) of showDialog.
HandleMaybeOverWrite(o, label) ==
    /\ ops[o].kind = "saveAs"
    /\ ops[o].pc = "overwrite"
    /\ LET op == [ops[o] EXCEPT !.choice = label] IN
       IF isDisposed
       THEN SetOp(o, Rejected(op))
       ELSE IF label = "OVERWRITE"
            THEN SetOp(o, [op EXCEPT !.pc = "delete", !.st = 0])
            ELSE SetOp(o, Fulfilled(op))
    /\ UNCHANGED <<storageVars, contextVars>>

\* Context._maybeOverWrite: the response of contents.delete(path).  On
\* success _finishSaveAs is called but its promise is not returned: saveAs
\* fulfils and the rest runs as a promise chain of its own.  A failure goes
\* to the .catch of saveAs, which finishes the saveAs on a 404.
HandleDelete(o) ==
    /\ Waiting(o, "saveAs", "delete")
    /\ LET op == ops[o] IN
       IF op.st = 200
       THEN \E k \in OpIds :
              /\ k # o
              /\ ops[k].kind = "none"
              /\ \A j \in OpIds : (j < k /\ j # o) => ops[j].kind # "none"
              /\ ops' = [ops EXCEPT
                           ![o] = Fulfilled(op),
                           ![k] = FinishSaveAs([NoOp EXCEPT
                                      !.kind = "saveAs", !.api = "detached",
                                      !.tpath = op.tpath,
                                      !.late = op.late,
                                      !.afterMove = op.afterMove])]
              /\ path' = op.tpath
       ELSE IF op.st = 404
            THEN /\ SetOp(o, FinishSaveAs(op))
                 /\ path' = op.tpath
            ELSE /\ SetOp(o, Rejected(op))
                 /\ path' = path
    /\ UNCHANGED <<storageVars, content, dirty, contentsModel,
                   hasCheckpointed, isDisposed, sessionPath, collaborative, fileFormat,
                   persisted, moved, pathChanged>>

\* Context._finishSaveAs: session.setPath and session.setName have answered;
\* the last .then calls save().
HandleSetPath(o) ==
    /\ Waiting(o, "saveAs", "setPath")
    /\ LET op == ops[o] IN
       IF op.st = 200
       THEN SetOp(o, StartSave(op))
       ELSE SetOp(o, Rejected(op))
    /\ UNCHANGED <<storageVars, contextVars>>

\* ------------------------------------------------------- checkpoint methods

\* The checkpoint ids a caller may name.
CheckpointIds == 0..MaxCheckpoints

\* No checkpoint id given (checkpointId is undefined).
NoId == -1

\* Context.createCheckpoint: contents.createCheckpoint(this.path).
CallCreateCheckpoint(o) ==
    /\ Free(o)
    /\ SetOp(o, [NewOp EXCEPT !.kind = "createCheckpoint",
                             !.api = "createCheckpoint",
                             !.pc = "create", !.tpath = path])
    /\ Called
    /\ UNCHANGED <<files, clock, nextId, events, made, writes, contextVars>>

\* Context.listCheckpoints: contents.listCheckpoints(this.path).
CallListCheckpoints(o) ==
    /\ Free(o)
    /\ SetOp(o, [NewOp EXCEPT !.kind = "listCheckpoints",
                             !.api = "listCheckpoints",
                             !.pc = "list", !.tpath = path])
    /\ Called
    /\ UNCHANGED <<files, clock, nextId, events, made, writes, contextVars>>

\* Context.deleteCheckpoint: contents.deleteCheckpoint(this.path, id).
CallDeleteCheckpoint(o, id) ==
    /\ Free(o)
    /\ SetOp(o, [NewOp EXCEPT !.kind = "deleteCheckpoint",
                             !.api = "deleteCheckpoint",
                             !.pc = "remove", !.tpath = path,
                             !.cks = <<id>>])
    /\ Called
    /\ UNCHANGED <<files, clock, nextId, events, made, writes, contextVars>>

\* Context.restoreCheckpoint: with an id the restore is issued at once,
\* without one the checkpoints are listed first.
CallRestoreCheckpoint(o, id) ==
    /\ Free(o)
    /\ LET op == [NewOp EXCEPT !.kind = "restoreCheckpoint",
                              !.api = "restoreCheckpoint", !.tpath = path]
       IN IF id # NoId
          THEN SetOp(o, [op EXCEPT !.pc = "restore", !.cks = <<id>>])
          ELSE SetOp(o, [op EXCEPT !.pc = "list"])
    /\ Called
    /\ UNCHANGED <<files, clock, nextId, events, made, writes, contextVars>>

\* Variant: the first checkpoint of the list is restored.
HandleListForRestoreFirst(o) ==
    /\ Waiting(o, "restoreCheckpoint", "list")
    /\ LET op == ops[o] IN
       IF op.st = 200
       THEN IF isDisposed \/ Len(op.cks) = 0
            THEN SetOp(o, Fulfilled(op))
            ELSE SetOp(o, [op EXCEPT !.pc = "restore", !.st = 0,
                                     !.cks = <<op.cks[1]>>,
                                     !.listed = TRUE])
       ELSE SetOp(o, Rejected(op))
    /\ UNCHANGED <<storageVars, contextVars>>

\* Context.restoreCheckpoint: the .then(checkpoints => ...) of listCheckpoints.
HandleListForRestore(o) ==
    /\ Waiting(o, "restoreCheckpoint", "list")
    /\ LET op == ops[o] IN
       IF op.st = 200
       THEN IF isDisposed \/ Len(op.cks) = 0
            THEN SetOp(o, Fulfilled(op))
            ELSE SetOp(o, [op EXCEPT !.pc = "restore", !.st = 0,
                                     !.cks = <<op.cks[Len(op.cks)]>>,
                                     !.listed = TRUE])
       ELSE SetOp(o, Rejected(op))
    /\ UNCHANGED <<storageVars, contextVars>>

\* The calls whose promise is handed to the caller as the storage client
\* returned it: createCheckpoint, listCheckpoints, deleteCheckpoint and the
\* restore call of restoreCheckpoint.
PassedThrough ==
    { <<"createCheckpoint", "create">>, <<"listCheckpoints", "list">>,
      <<"deleteCheckpoint", "remove">>, <<"restoreCheckpoint", "restore">> }

\* The promise of a passed-through call settles as the storage call did.
SettleCall(o) ==
    /\ <<ops[o].kind, ops[o].pc>> \in PassedThrough
    /\ ops[o].st # 0
    /\ SetOp(o, IF ops[o].st = 200 THEN Fulfilled(ops[o])
                                   ELSE Rejected(ops[o]))
    /\ UNCHANGED <<storageVars, contextVars>>

\* The caller has seen the outcome; the promise chain is gone.
Forget(o) ==
    /\ ops[o].pc = "done"
    /\ SetOp(o, NoOp)
    /\ UNCHANGED <<storageVars, contextVars>>

\* ------------------------------------------------------ the storage service

\* One more event of the environment.
Event ==
    /\ events < MaxEvents
    /\ events' = events + 1

\* The storage calls an operation can have in flight, by position.
MetadataCalls == {"get"}

ContentCalls == {"revert", "load"}

Pending(o, pcs) ==
    /\ ops[o].pc \in pcs
    /\ ops[o].st = 0

\* contents.get: 404 for a missing file, else its contents model, with the
\* content when it was asked for.
ServeGet(o) ==
    /\ Pending(o, MetadataCalls \cup ContentCalls)
    /\ LET op == ops[o]
           f  == files[op.tpath]
       IN IF f.exists
          THEN SetOp(o, [op EXCEPT !.st = 200,
                                   !.meta = MetaOf(op.tpath, f),
                                   !.body = IF op.pc \in ContentCalls
                                            THEN f.content ELSE <<>>])
          ELSE SetOp(o, [op EXCEPT !.st = 404])
    /\ UNCHANGED <<storageVars, contextVars>>

\* contents.listCheckpoints: the checkpoint ids in creation order.
ServeList(o) ==
    /\ Pending(o, {"list"})
    /\ LET op == ops[o]
           f  == files[op.tpath]
       IN IF f.exists
          THEN SetOp(o, [op EXCEPT !.st = 200,
                                   !.cks = [i \in 1..Len(f.ckpts) |->
                                              f.ckpts[i].id]])
          ELSE SetOp(o, [op EXCEPT !.st = 404])
    /\ UNCHANGED <<storageVars, contextVars>>

\* contents.createCheckpoint: a snapshot of the file's content under a new id.
ServeCreate(o) ==
    /\ Pending(o, {"create"})
    /\ LET op == ops[o]
           f  == files[op.tpath]
       IN IF f.exists
          THEN /\ nextId <= MaxCheckpoints
               /\ files' = [files EXCEPT ![op.tpath].ckpts =
                              Append(@, [id |-> nextId, content |-> f.content])]
               /\ nextId' = nextId + 1
               /\ made' = IF op.kind = "save" THEN made + 1 ELSE made
               /\ writes' = writes
               /\ SetOp(o, [op EXCEPT !.st = 200, !.cks = <<nextId>>,
                                      !.ckpt = TRUE])
          ELSE /\ SetOp(o, [op EXCEPT !.st = 404])
               /\ UNCHANGED <<files, nextId, made, writes>>
    /\ UNCHANGED <<calls, clock, events, contextVars>>

\* History: the file a write replaces holds a version an external client
\* wrote and the context has not seen (its cached contents model is older or
\* is about another path).
Unseen(p, f) ==
    /\ f.exists
    /\ f.writer = "ext"
    /\ ~(contentsModel.path = p /\ f.lm <= contentsModel.lm)

\* contents.save: the file is created or replaced and stamped with the
\* service's time.
ServeSave(o) ==
    /\ Pending(o, {"write"})
    /\ LET op == ops[o]
           f  == files[op.tpath]
           g  == [exists |-> TRUE, content |-> op.body,
                  lm |-> clock + WriteTime,
                  wr |-> IF f.exists THEN f.wr ELSE TRUE,
                  ckpts |-> f.ckpts, writer |-> "ctx"]
       IN /\ files' = [files EXCEPT ![op.tpath] = g]
          /\ clock' = clock + WriteTime
          /\ SetOp(o, [op EXCEPT !.st = 200, !.meta = MetaOf(op.tpath, g),
                                 !.wrote = TRUE,
                                 !.lost = Unseen(op.tpath, f),
                                 !.known = /\ f.exists
                                           /\ op.meta = MetaOf(op.tpath, f)])
          /\ writes' = writes + 1
    /\ UNCHANGED <<calls, nextId, events, made, contextVars>>

\* contents.delete: the file and its checkpoints are gone.
ServeDelete(o) ==
    /\ Pending(o, {"delete"})
    /\ LET op == ops[o] IN
       IF files[op.tpath].exists
       THEN /\ files' = [files EXCEPT ![op.tpath] = NoFile]
            /\ SetOp(o, [op EXCEPT !.st = 200])
       ELSE /\ files' = files
            /\ SetOp(o, [op EXCEPT !.st = 404])
    /\ UNCHANGED <<calls, clock, nextId, events, made, writes, contextVars>>

\* The position of checkpoint `id` in a checkpoint list, 0 when absent.
IndexOf(cks, id) ==
    IF \E i \in 1..Len(cks) : cks[i].id = id
    THEN CHOOSE i \in 1..Len(cks) : cks[i].id = id
    ELSE 0

\* contents.deleteCheckpoint.
ServeDeleteCheckpoint(o) ==
    /\ Pending(o, {"remove"})
    /\ LET op == ops[o]
           f  == files[op.tpath]
           i  == IndexOf(f.ckpts, op.cks[1])
       IN IF f.exists /\ i # 0
          THEN /\ files' = [files EXCEPT ![op.tpath].ckpts =
                              SubSeq(@, 1, i - 1) \o SubSeq(@, i + 1, Len(@))]
               /\ SetOp(o, [op EXCEPT !.st = 200])
          ELSE /\ files' = files
               /\ SetOp(o, [op EXCEPT !.st = 404])
    /\ UNCHANGED <<calls, clock, nextId, events, made, writes, contextVars>>

\* contents.restoreCheckpoint: the file gets the content of the checkpoint
\* and is stamped with the service's time.
ServeRestore(o) ==
    /\ Pending(o, {"restore"})
    /\ LET op == ops[o]
           f  == files[op.tpath]
           i  == IndexOf(f.ckpts, op.cks[1])
       IN IF f.exists /\ i # 0
          THEN /\ files' = [files EXCEPT ![op.tpath].content = f.ckpts[i].content,
                                         ![op.tpath].lm = clock + WriteTime,
                                         ![op.tpath].writer = "ctx"]
               /\ clock' = clock + WriteTime
               /\ SetOp(o, [op EXCEPT !.st = 200])
          ELSE /\ UNCHANGED <<files, clock>>
               /\ SetOp(o, [op EXCEPT !.st = 404])
    /\ UNCHANGED <<calls, nextId, events, made, writes, contextVars>>

\* Variant: the flag is reset whether or not the path differs.
FollowSessionAlways(q) ==
    /\ path' = q
    /\ hasCheckpointed' = FALSE
    /\ moved' = (moved \/ q # path)
    /\ pathChanged' = IF q # path THEN Append(pathChanged, q) ELSE pathChanged

\* Context._onSessionChanged for a 'path' notification: the context follows
\* the session when the session's path is not its own.
FollowSession(q) ==
    IF q # path
    THEN /\ path' = q
         /\ hasCheckpointed' = FALSE
         /\ moved' = TRUE
         /\ pathChanged' = Append(pathChanged, q)
    ELSE UNCHANGED <<path, hasCheckpointed, moved, pathChanged>>

\* session.setPath, then session.setName: the session takes the path and
\* reports the change of its path property.
ServeSetPath(o) ==
    /\ Pending(o, {"setPath"})
    /\ sessionPath' = ops[o].tpath
    /\ IF isDisposed \/ sessionPath' = sessionPath
       THEN UNCHANGED <<path, hasCheckpointed, moved, pathChanged>>
       ELSE FollowSession(sessionPath')
    /\ SetOp(o, [ops[o] EXCEPT !.st = 200])
    /\ UNCHANGED <<storageVars, content, dirty, contentsModel, isDisposed,
                   collaborative, fileFormat, persisted>>

\* The calls that go to a server.
ServerCalls ==
    MetadataCalls \cup ContentCalls
        \cup {"list", "create", "write", "delete", "remove", "restore",
              "setPath"}

\* Any storage call may fail instead: the service changes nothing and
\* answers with an error status.
ServeFailure(o, status) ==
    /\ Pending(o, ServerCalls)
    /\ Event
    /\ SetOp(o, [ops[o] EXCEPT !.st = status])
    /\ UNCHANGED <<calls, files, clock, nextId, made, writes, contextVars>>

\* --------------------------------------------------------- the environment

\* The user edits the document: the model's content changes and the model
\* marks itself dirty.
Edit(c) ==
    /\ ~isDisposed
    /\ c # content
    /\ content' = c
    /\ dirty' = TRUE
    /\ UNCHANGED <<storageVars, path, contentsModel, hasCheckpointed,
                   isDisposed, sessionPath, collaborative, fileFormat, persisted, moved, pathChanged,
                   ops>>

\* Another client of the storage service writes a file.
ExternalWrite(p, c, d) ==
    /\ p = path
    /\ files' = [files EXCEPT ![p] =
                   [exists |-> TRUE, content |-> c, lm |-> clock + d,
                    wr |-> IF @.exists THEN @.wr ELSE TRUE,
                    ckpts |-> @.ckpts, writer |-> "ext"]]
    /\ clock' = clock + d
    /\ Event
    /\ UNCHANGED <<calls, nextId, made, writes, contextVars, ops>>

\* Another client of the storage service deletes a file.
ExternalDelete(p) ==
    /\ files[p].exists
    /\ files' = [files EXCEPT ![p] = NoFile]
    /\ Event
    /\ UNCHANGED <<calls, clock, nextId, made, writes, contextVars, ops>>

\* Variant: the notification updates the session and the cached contents
\* model but leaves the context's own path as it was.
OnFileChangedKeepsPath(oldPath, newValue) ==
    IF ~isDisposed /\ newValue.path # "" /\ oldPath = path
    THEN /\ sessionPath' = newValue.path
         /\ path' = path
         /\ contentsModel' = UpdatedContentsModel(newValue)
         /\ hasCheckpointed' = FALSE
         /\ moved' = TRUE
         /\ pathChanged' = Append(pathChanged, path)
    ELSE UNCHANGED <<sessionPath, path, contentsModel, hasCheckpointed, moved, pathChanged>>

\* Variant: the notification leaves the checkpoint flag as it was.
OnFileChangedKeepsFlag(oldPath, newValue) ==
    IF ~isDisposed /\ newValue.path # "" /\ oldPath = path
    THEN /\ sessionPath' = newValue.path
         /\ path' = newValue.path
         /\ contentsModel' = UpdatedContentsModel(newValue)
         /\ hasCheckpointed' = hasCheckpointed
         /\ moved' = TRUE
         /\ pathChanged' = Append(pathChanged, newValue.path)
    ELSE UNCHANGED <<sessionPath, path, contentsModel, hasCheckpointed, moved, pathChanged>>

\* Context._onFileChanged: a file was renamed through the contents manager,
\* which then emits fileChanged({type: 'rename', oldValue, newValue}).
\* `stamped` tells whether newValue carries last_modified.
OnFileChanged(oldPath, newValue) ==
    IF ~isDisposed /\ newValue.path # "" /\ oldPath = path
    THEN /\ sessionPath' = newValue.path
         /\ path' = newValue.path
         /\ contentsModel' = UpdatedContentsModel(newValue)
         /\ hasCheckpointed' = FALSE
         /\ moved' = TRUE
         /\ pathChanged' = Append(pathChanged, newValue.path)
    ELSE UNCHANGED <<sessionPath, path, contentsModel, hasCheckpointed, moved, pathChanged>>

Rename(p, q, stamped) ==
    /\ p # q
    /\ files[p].exists
    /\ ~files[q].exists
    /\ files' = [files EXCEPT ![q] = files[p], ![p] = NoFile]
    /\ OnFileChanged(p, [path |-> q,
                         lm |-> IF stamped THEN files[p].lm ELSE 0,
                         wr |-> files[p].wr])
    /\ Event
    /\ UNCHANGED <<calls, clock, nextId, made, writes, content, dirty, isDisposed,
                   collaborative, fileFormat, persisted, ops>>

\* Context._onSessionChanged: the session reports a change of its path.
OnSessionChanged(q) ==
    /\ ~isDisposed
    /\ q # sessionPath
    /\ sessionPath' = q
    /\ FollowSession(q)
    /\ Event
    /\ UNCHANGED <<calls, files, clock, nextId, made, writes, content, dirty, contentsModel,
                   isDisposed, collaborative, fileFormat, persisted, ops>>

\* Context.dispose.
Dispose ==
    /\ ~isDisposed
    /\ isDisposed' = TRUE
    /\ UNCHANGED <<storageVars, path, content, dirty, contentsModel,
                   hasCheckpointed, sessionPath, collaborative, fileFormat, persisted,
                   moved, pathChanged, ops>>

\* ------------------------------------------------------------ specification

\* The continuation of the caller runs as soon as the promise settles.
NoneSettled == \A o \in OpIds : ops[o].pc # "done"

\* No promise chain of the context is in flight.
Idle == \A o \in OpIds : ops[o].kind = "none"

\* The operations of the context are called one after the other: the next
\* one is called when the promise of the previous one has settled.  The
\* storage service and the environment interleave freely with them.
Next ==
    \/ \E o \in OpIds : NoneSettled /\ Idle /\ CallSave(o) /\ Quiet
    \/ \E o \in OpIds : NoneSettled /\ Idle /\ CallRevert(o) /\ Quiet
    \/ \E o \in OpIds : NoneSettled /\ HandleMaybeSave(o) /\ Quiet
    \/ \E o \in OpIds, b \in ConflictButtons :
          NoneSettled /\ HandleTimeConflict(o, b) /\ Quiet
    \/ \E o \in OpIds : NoneSettled /\ HandleSaveRevert(o) /\ Quiet
    \/ \E o \in OpIds : NoneSettled /\ HandleListForSave(o) /\ Quiet
    \/ \E o \in OpIds : NoneSettled /\ HandleCreateForSave(o) /\ Quiet
    \/ \E o \in OpIds : NoneSettled /\ HandleWrite(o) /\ Quiet
    \/ \E o \in OpIds : NoneSettled /\ HandleRevert(o) /\ Quiet
    \/ \E o \in OpIds : NoneSettled /\ Idle /\ CallSaveAs(o) /\ Quiet
    \/ \E o \in OpIds, q \in Paths \cup {""} :
          NoneSettled /\ HandleSavePath(o, q) /\ Quiet
    \/ \E o \in OpIds : NoneSettled /\ HandleProbe(o) /\ Quiet
    \/ \E o \in OpIds, b \in OverwriteButtons :
          NoneSettled /\ HandleMaybeOverWrite(o, b) /\ Quiet
    \/ \E o \in OpIds : NoneSettled /\ HandleDelete(o) /\ Quiet
    \/ \E o \in OpIds : NoneSettled /\ HandleSetPath(o) /\ Quiet
    \/ \E o \in OpIds : NoneSettled /\ Idle /\ CallCreateCheckpoint(o)
          /\ Quiet
    \/ \E o \in OpIds : NoneSettled /\ Idle /\ CallListCheckpoints(o) /\ Quiet
    \/ \E o \in OpIds, id \in CheckpointIds :
          NoneSettled /\ Idle /\ CallDeleteCheckpoint(o, id) /\ Quiet
    \/ \E o \in OpIds, id \in CheckpointIds \cup {NoId} :
          NoneSettled /\ Idle /\ CallRestoreCheckpoint(o, id) /\ Quiet
    \/ \E o \in OpIds : NoneSettled /\ HandleListForRestore(o) /\ Quiet
    \/ \E o \in OpIds : NoneSettled /\ SettleCall(o) /\ Quiet
    \/ \E o \in OpIds : NoneSettled /\ ServeDelete(o) /\ Quiet
    \/ \E o \in OpIds : NoneSettled /\ ServeDeleteCheckpoint(o) /\ Quiet
    \/ \E o \in OpIds : NoneSettled /\ ServeRestore(o) /\ Quiet
    \/ \E o \in OpIds : NoneSettled /\ ServeSetPath(o) /\ Quiet
    \/ \E o \in OpIds : NoneSettled /\ ServeGet(o) /\ Quiet
    \/ \E o \in OpIds : NoneSettled /\ ServeList(o) /\ Quiet
    \/ \E o \in OpIds : NoneSettled /\ ServeCreate(o) /\ Quiet
    \/ \E o \in OpIds : NoneSettled /\ ServeSave(o) /\ Quiet
    \/ \E o \in OpIds, s \in FailStatuses : NoneSettled /\ ServeFailure(o, s)
          /\ Quiet
    \/ \E c \in EditContents : NoneSettled /\ Edit(c) /\ Quiet
    \/ \E p \in Paths, c \in DiskContents, d \in Deltas :
          NoneSettled /\ ExternalWrite(p, c, d) /\ Quiet
    \/ \E p \in Paths : NoneSettled /\ ExternalDelete(p) /\ Quiet
    \/ \E p \in Paths, q \in Paths, stamped \in BOOLEAN :
          NoneSettled /\ Rename(p, q, stamped) /\ Quiet
    \/ \E q \in Paths : NoneSettled /\ OnSessionChanged(q) /\ Quiet
    \/ NoneSettled /\ Dispose /\ Quiet
    \/ \E o \in OpIds : Forget(o) /\ Quiet

Spec == Init /\ [][Next]_vars

\* ------------------------------------------------------------------ claims

IsSave(o) == ops[o].kind = "save"

\* C1 (as stated): for a non-collaborative document, a save() that replaces
\* a version an external client wrote and the context has not seen was told
\* OVERWRITE in its conflict dialog.
C1_NoUnseenVersionReplaced ==
    \A o \in OpIds :
        (IsSave(o) /\ ~collaborative /\ ops[o].lost)
            => ops[o].choice = "OVERWRITE"

\* C1 (amended): for a non-collaborative document, a save() that replaces an
\* unseen external version which its own metadata fetch reported, stamped
\* more than 500 ms after the cached last_modified, was told OVERWRITE in its
\* conflict dialog.
C1_NoReportedVersionReplaced ==
    \A o \in OpIds :
        (IsSave(o) /\ ~collaborative /\ ops[o].lost /\ ops[o].known
                   /\ ops[o].newer)
            => ops[o].choice = "OVERWRITE"

\* C1 witness: a save has replaced, after OVERWRITE, the unseen version its
\* fetch reported.
C1_Witness ==
    \E o \in OpIds :
        /\ IsSave(o) /\ ~collaborative
        /\ ops[o].lost /\ ops[o].known /\ ops[o].newer
        /\ ops[o].choice = "OVERWRITE"

\* The step in which save() handles the response of its metadata fetch on a
\* live context.
ChecksTime(o) ==
    /\ IsSave(o)
    /\ ops[o].pc = "get"
    /\ ops[o].st = 200
    /\ ~isDisposed
    /\ ops'[o] # ops[o]

\* C2: with cached last_modified T and fetched last_modified R, the
\* maybe-save branch opens the conflict dialog exactly when T is present and
\* R - T > 500; otherwise it goes on to the checkpoint step or the write.
\* In particular R = T + 400 and R = T + 500 go on, R = T + 600 opens the
\* dialog and R <= T never does.
C2_ConflictThreshold ==
    [][\A o \in OpIds :
         ChecksTime(o) =>
            LET T == contentsModel.lm
                R == ops[o].meta.lm
                dialog == ops'[o].pc = "dialog"
                goesOn == ops'[o].pc \in {"list", "write"}
            IN /\ dialog <=> (T # 0 /\ R - T > 500)
               /\ dialog \/ goesOn
               /\ (R = T + 400 \/ R = T + 500) => goesOn
               /\ (T # 0 /\ R = T + 600) => dialog
               /\ R <= T => goesOn]_vars

\* C2 witness: the dialog is open for a file stamped 600 ms after the cached
\* last_modified.
C2_Witness ==
    \E o \in OpIds :
        /\ IsSave(o)
        /\ ops[o].pc = "dialog"
        /\ contentsModel.lm # 0
        /\ ops[o].held.lm = contentsModel.lm + 600

\* C3: a save() that declared a conflict has created a checkpoint or written
\* only if the dialog returned OVERWRITE, and as long as the dialog has
\* returned nothing the save waits in the dialog with no call issued.
C3_ConflictNeedsOverwrite ==
    \A o \in OpIds :
        (IsSave(o) /\ ops[o].conflict) =>
            /\ (ops[o].wrote \/ ops[o].ckpt) => ops[o].choice = "OVERWRITE"
            /\ ops[o].pc \in {"list", "create", "write"}
                  => ops[o].choice = "OVERWRITE"
            /\ ops[o].choice = "" => ops[o].pc = "dialog"

\* C3 witness: a conflict was answered REVERT and the save has completed
\* without a checkpoint and without a write.
C3_Witness ==
    \E o \in OpIds :
        /\ IsSave(o) /\ ops[o].conflict
        /\ ops[o].choice = "REVERT"
        /\ ops[o].pc = "done"
        /\ ~ops[o].wrote /\ ~ops[o].ckpt

\* The step in which the conflict dialog of a save() returns `label`.
Answers(o, label) ==
    /\ IsSave(o)
    /\ ops[o].pc = "dialog"
    /\ ops'[o].choice = label

\* C4: when the user chooses Cancel in the conflict dialog of a save() on a
\* dirty model, save() completes with dirty still true, contentsModel
\* unchanged, nothing written and no error report.
C4_CancelChangesNothing ==
    [][\A o \in OpIds :
         (Answers(o, "CANCEL") /\ ~isDisposed /\ dirty) =>
            /\ ops'[o].pc = "done"
            /\ dirty'
            /\ contentsModel' = contentsModel
            /\ files' = files
            /\ ops'[o].reports = {}]_vars

C6_DirtyWhenDiffers == (content # persisted) => dirty

\* The step in which a save() handles a storage failure it does not tolerate.
FailsSave(o) ==
    /\ IsSave(o)
    /\ ops'[o] # ops[o]
    /\ \/ ops[o].pc = "get" /\ ops[o].st \notin {0, 200, 404}
       \/ ops[o].pc \in {"list", "create"} /\ ops[o].st \notin {0, 200, 403}
       \/ ops[o].pc = "write" /\ ops[o].st \notin {0, 200}

\* A step of a save(), its call included.
SaveStep(o) ==
    /\ ops'[o] # ops[o]
    /\ IsSave(o) \/ ops'[o].kind = "save"

\* C7: when the metadata fetch, the checkpoint step or the write of a save()
\* fails with an error that is not tolerated, the save completes in that
\* step, fulfilled, with a 'File Save Error' report, and leaves dirty and
\* contentsModel as they were; no earlier step of a save changes them either.
C7_FailureLeavesState ==
    [][\A o \in OpIds :
         /\ FailsSave(o) =>
               /\ ops'[o].pc = "done"
               /\ ops'[o].outcome = "fulfilled"
               /\ SaveErrorTitle \in ops'[o].reports
               /\ dirty' = dirty
               /\ contentsModel' = contentsModel
         /\ (SaveStep(o) /\ ops'[o].pc # "done") =>
               /\ dirty' = dirty
               /\ contentsModel' = contentsModel]_vars

\* C7 witness: a save() on a dirty model has failed in its fetch, checkpoint
\* step or write, and dirty is still true.
C7_Witness ==
    \E o \in OpIds :
        /\ IsSave(o) /\ ops[o].pc = "done"
        /\ ops[o].reports = {SaveErrorTitle}
        /\ ops[o].choice = ""
        /\ ~isDisposed
        /\ dirty

\* The step in which an operation ends on a failed call.
EndsOnFailure(o) ==
    /\ ops[o].st \notin {0, 200}
    /\ ops'[o] # ops[o]
    /\ ops'[o].pc = "done"

\* C8 (as stated): an operation of the context that ends on a failed storage
\* call raises an error report and its promise fulfils.
C8_NoRejection ==
    [][\A o \in OpIds :
         (EndsOnFailure(o) /\ ops[o].api # "detached") =>
            /\ ops'[o].outcome = "fulfilled"
            /\ ops'[o].reports # {}]_vars

\* C8 (amended): a save() or revert() that ends on a failed storage call
\* raises an error report and its promise fulfils, and no save() or revert()
\* ever rejects; saveAs() before its save, createCheckpoint, listCheckpoints,
\* deleteCheckpoint and restoreCheckpoint reject on a failed call and raise
\* no report.
C8_OnlySaveAndRevertCatch ==
    [][\A o \in OpIds :
         /\ EndsOnFailure(o) =>
               IF ops[o].kind \in {"save", "revert"}
               THEN /\ ops'[o].outcome = "fulfilled"
                    /\ ops'[o].reports # ops[o].reports
               ELSE /\ ops'[o].outcome = "rejected"
                    /\ ops'[o].reports = ops[o].reports
         /\ ops'[o].api \in {"save", "revert"}
               => ops'[o].outcome # "rejected"]_vars

\* C8 witness: a revert() has ended on a failed fetch, fulfilled, with a
\* 'File Load Error' report.
C8_Witness ==
    \E o \in OpIds :
        /\ ops[o].kind = "revert" /\ ops[o].pc = "done"
        /\ ops[o].outcome = "fulfilled"
        /\ ops[o].reports = {LoadErrorTitle}

C10_NeverReset == [][hasCheckpointed => hasCheckpointed']_vars

\* C10 (amended): hasCheckpointed, once true, becomes false only in a step
\* that changes the path of the context (a rename notification for its path
\* or a session path change).
C10_ResetOnlyOnPathChange ==
    [][(hasCheckpointed /\ ~hasCheckpointed') => (path' # path /\ moved')]_vars

\* C10 witness: a save has set hasCheckpointed after creating its checkpoint
\* and the flag is false again.
C10_Witness ==
    /\ ~hasCheckpointed
    /\ moved
    /\ \E o \in OpIds :
          /\ IsSave(o) /\ ops[o].ckpt
          /\ ops[o].pc \in {"write", "done"}

\* The storage service renames file p to q in this step.
Renamed(p, q) ==
    /\ p # q
    /\ files[p].exists
    /\ ~files[q].exists
    /\ files'[q] = files[p]
    /\ ~files'[p].exists

\* The rename notification of this step is about the context's own file.
RenamedOwn(p, q) == Renamed(p, q) /\ p = path /\ ~isDisposed

\* Promise chain o issues one of save()'s storage calls in this step.
SaveIssues(o) ==
    /\ ops'[o].kind = "save"
    /\ ops'[o].pc \in {"get", "list", "create", "write"}
    /\ ops'[o].st = 0
    /\ (ops[o].kind # "save" \/ ops[o].pc # ops'[o].pc)

\* C11: a rename notification whose old path is the context's path makes the
\* new path the context's path, and every call a save() issues (metadata
\* fetch, checkpoint list and create, write) goes to the context's path of
\* that moment, so after the rename to the new path, with no saveAs().
C11_RenameRetargetsSave ==
    [][/\ \A p \in Paths, q \in Paths : RenamedOwn(p, q) => path' = q
       /\ \A o \in OpIds :
            (SaveIssues(o) /\ ops'[o].api = "save")
                => (ops'[o].tpath = path' /\ path' = path)]_vars

\* C11 witness: a save() called after the rename of "a" to "b" has fetched,
\* checkpointed and written, all at "b".
C11_Witness ==
    \E o \in OpIds :
        /\ ops[o].api = "save" /\ ops[o].pc = "done"
        /\ ops[o].wrote /\ ops[o].ckpt
        /\ calls = 1 /\ events = 1 /\ ~collaborative
        /\ path = "b" /\ contentsModel.path = "b"
        /\ ~files["a"].exists
        /\ files["b"].writer = "ctx" /\ Len(files["b"].ckpts) = 1

C13_SessionPathUpdatesMetadata ==
    [][(/\ ~isDisposed
        /\ sessionPath' # sessionPath
        /\ sessionPath' # path)
          => (path' = sessionPath' /\ contentsModel'.path = sessionPath')]_vars

\* ------------------------------------------------ loading, on its own inputs

\* Longest content the storage service holds in the loading specification.
MaxLen == 4

\* The characters of those contents.
Chars == {"a", "\r", "\n"}

\* Every content of at most MaxLen characters.
Contents == UNION {[1..n -> Chars] : n \in 0..MaxLen}

\* The state after createModel and createContext for a writable file "a" with
\* any of these contents and a factory of either file format.
InitLoad ==
    \E c0 \in Contents, f \in {"text", "json"} :
        /\ files = [p \in Paths |->
                      IF p = "a"
                      THEN [exists |-> TRUE, content |-> c0, lm |-> StartTime,
                            wr |-> TRUE, ckpts |-> <<>>, writer |-> "ext"]
                      ELSE NoFile]
        /\ clock = StartTime
        /\ nextId = 1
        /\ events = 0
        /\ path = "a"
        /\ fileFormat = f
        /\ content = UpdatedContent(f, c0)
        /\ dirty = UpdatedDirty(f, c0)
        /\ contentsModel = [path |-> "a", lm |-> StartTime, wr |-> TRUE]
        /\ hasCheckpointed = FALSE
        /\ isDisposed = FALSE
        /\ calls = 0
        /\ sessionPath = "a"
        /\ collaborative = FALSE
        /\ persisted = c0
        /\ made = 0
        /\ writes = 0
        /\ moved = FALSE
        /\ pathChanged = <<>>
        /\ ops = [o \in OpIds |-> NoOp]
        /\ NoManager
        /\ NoHandler
        /\ NoUtil

\* The user edits, and revert() loads the file again.
NextLoad ==
    \/ \E o \in OpIds : NoneSettled /\ Idle /\ CallRevert(o) /\ Quiet
    \/ \E o \in OpIds : NoneSettled /\ ServeGet(o) /\ Quiet
    \/ \E o \in OpIds : NoneSettled /\ HandleRevert(o) /\ Quiet
    \/ \E c \in EditContents : NoneSettled /\ Edit(c) /\ Quiet
    \/ \E o \in OpIds : Forget(o) /\ Quiet

SpecLoad == InitLoad /\ [][NextLoad]_vars

\* Character i of s is the \n of a \r\n pair.
PairedLF(s, i) == i > 1 /\ s[i] = "\n" /\ s[i - 1] = "\r"

\* The positions of s that survive the conversion of line endings.
Kept(s) == {i \in 1..Len(s) : ~PairedLF(s, i)}

\* s with every \r\n pair and every remaining lone \r replaced by one \n:
\* the characters at the kept positions, in order, \r read as \n.
Normalised(s) ==
    [k \in 1..Cardinality(Kept(s)) |->
        LET i == CHOOSE j \in Kept(s) :
                     Cardinality({h \in Kept(s) : h <= j}) = k
        IN IF s[i] = "\r" THEN "\n" ELSE s[i]]

\* The load of this step hands fetched content to the model.
Loads(o) ==
    /\ ops[o].kind = "revert" /\ ops[o].pc = "load" /\ ops[o].st = 200
    /\ ops'[o].pc = "done"

\* C14: a load or revert of text-format content gives the model the fetched
\* content with every \r\n pair and every remaining lone \r replaced by one
\* \n, and sets dirty exactly when the fetched content held a \r; for
\* json-format content dirty is set to false.  The state after construction
\* is the result of the first load.
C14_LoadNormalises ==
    /\ fileFormat = "text"
           => (content = Normalised(persisted) /\ dirty = HasCR(persisted))
    /\ fileFormat = "json" => ~dirty
    /\ [][\A o \in OpIds :
            Loads(o) =>
               IF fileFormat = "text"
               THEN /\ content' = Normalised(ops[o].body)
                    /\ dirty' = (\E i \in 1..Len(ops[o].body) :
                                    ops[o].body[i] = "\r")
               ELSE dirty' = FALSE]_vars

\* C14 witness: a revert of text that holds a \r\n pair and a lone \r has
\* replaced the user's edit by the converted text and left the model dirty.
C14_Witness ==
    \E o \in OpIds :
        /\ ops[o].kind = "revert" /\ ops[o].pc = "done"
        /\ fileFormat = "text"
        /\ persisted = <<"\r", "\n", "a", "\r">>
        /\ content = <<"\n", "a", "\n">>
        /\ dirty

\* ------------------------------------------- save() after save(), undisturbed

\* save() is called, and called again when the first call has settled; the
\* user does not edit, no other client touches the storage and no call fails.
NextSaves ==
    \/ \E o \in OpIds : NoneSettled /\ Idle /\ CallSave(o) /\ Quiet
    \/ \E o \in OpIds : NoneSettled /\ ServeGet(o) /\ Quiet
    \/ \E o \in OpIds : NoneSettled /\ HandleMaybeSave(o) /\ Quiet
    \/ \E o \in OpIds : NoneSettled /\ ServeList(o) /\ Quiet
    \/ \E o \in OpIds : NoneSettled /\ HandleListForSave(o) /\ Quiet
    \/ \E o \in OpIds : NoneSettled /\ ServeCreate(o) /\ Quiet
    \/ \E o \in OpIds : NoneSettled /\ HandleCreateForSave(o) /\ Quiet
    \/ \E o \in OpIds : NoneSettled /\ ServeSave(o) /\ Quiet
    \/ \E o \in OpIds : NoneSettled /\ HandleWrite(o) /\ Quiet
    \/ \E o \in OpIds : Forget(o) /\ Quiet

SpecSaves == Init /\ [][NextSaves]_vars

\* C15 (as stated): when a save() has settled, dirty is false, and when it
\* is the second of two the storage has been written once in all.
C15_OneWriteForTwoSaves ==
    \A o \in OpIds :
        (ops[o].api = "save" /\ ops[o].pc = "done")
            => (~dirty /\ (calls = 2 => writes = 1))

\* C15 (amended): when a save() has settled it has written once, so the
\* storage has been written once per call; the file holds the model's
\* content, nothing was reported and dirty is false.
C15_OneWritePerSave ==
    \A o \in OpIds :
        (ops[o].api = "save" /\ ops[o].pc = "done")
            => /\ ~dirty
               /\ ops[o].wrote /\ writes = calls
               /\ files[path].content = content
               /\ ops[o].reports = {} /\ ops[o].outcome = "fulfilled"

\* C15 witness: the second of two save() calls has settled, and the file
\* carries the stamp of the second write.
C15_Witness ==
    \E o \in OpIds :
        /\ ops[o].api = "save" /\ ops[o].pc = "done"
        /\ calls = 2 /\ writes = 2 /\ ~dirty
        /\ files[path].writer = "ctx"
        /\ files[path].lm = StartTime + 2 * WriteTime

\* ----------------------------------------------------------------- disposal

\* Promise chain o takes a step.
Steps(o) == ops'[o] # ops[o]

\* C16: isDisposed, once true, stays true, and no step of an operation that
\* was called on the disposed context (save, saveAs, revert,
\* restoreCheckpoint or a checkpoint call), nor of the storage service on its
\* behalf, changes the model's content, dirty, the path, the cached contents
\* model or the storage.
C16_DisposedChangesNothing ==
    [][/\ isDisposed => isDisposed'
       /\ \A o \in OpIds :
            (Steps(o) /\ (ops[o].late \/ ops'[o].late))
                => /\ content' = content
                   /\ dirty' = dirty
                   /\ path' = path
                   /\ contentsModel' = contentsModel
                   /\ files' = files]_vars

\* Promise chain o, suspended on a storage call or on a dialog, resumes.
Resumes(o) ==
    /\ Steps(o)
    /\ \/ ops[o].st # 0
       \/ ops[o].pc \in {"dialog", "prompt", "overwrite"}

\* C17: when a save(), revert() or restoreCheckpoint() was called on a live
\* context and the context is disposed by the time the operation resumes,
\* the continuation changes neither the model's content, dirty, the cached
\* contents model nor hasCheckpointed, and the operation ends there, with no
\* further storage call.
C17_DisposedContinuationInert ==
    [][\A o \in OpIds :
          (/\ Resumes(o)
           /\ isDisposed /\ ~ops[o].late
           /\ ops[o].api \in {"save", "revert", "restoreCheckpoint"})
              => /\ content' = content
                 /\ dirty' = dirty
                 /\ contentsModel' = contentsModel
                 /\ hasCheckpointed' = hasCheckpointed
                 /\ ops'[o].pc = "done"]_vars

\* C18: an operation that resumes on a successful answer and finds its
\* context disposed raises no error report and does not reject: when it
\* ends, its promise fulfils.
C18_DisposedAbandonedSilently ==
    [][\A o \in OpIds :
          (/\ Resumes(o)
           /\ isDisposed
           /\ ops[o].st \in {0, 200})
              => /\ ops'[o].reports = ops[o].reports
                 /\ ops'[o].outcome # "rejected"
                 /\ ops'[o].pc = "done" => ops'[o].outcome = "fulfilled"]_vars

\* ------------------------------------------------- errors save() tolerates

\* The save() of chain o resumes on the answer to its metadata fetch.
AfterFetch(o) == IsSave(o) /\ ops[o].pc = "get" /\ Resumes(o)

\* The save() of chain o resumes on an answer of the checkpoint step.
AfterCheckpointStep(o) ==
    IsSave(o) /\ ops[o].pc \in {"list", "create"} /\ Resumes(o)

\* The save() of chain o ends in this step, reported as failed, unwritten.
Aborts(o) ==
    /\ ops'[o].pc = "done"
    /\ ~ops'[o].wrote
    /\ ops'[o].reports = ops[o].reports \cup {SaveErrorTitle}

\* C19: save() goes on after a 404 from its metadata fetch (to the
\* checkpoint step or, when that is skipped, to the write) and after a 403
\* from the checkpoint step (to the write), reporting nothing; every other
\* error status from these two steps ends the save before the write, with a
\* report.
C19_ToleratedErrors ==
    [][\A o \in OpIds :
          /\ (AfterFetch(o) /\ ops[o].st = 404)
                => /\ ops'[o].pc \in {"list", "write"}
                   /\ ops'[o].st = 0
                   /\ ops'[o].reports = ops[o].reports
          /\ (AfterCheckpointStep(o) /\ ops[o].st = 403)
                => /\ ops'[o].pc = "write"
                   /\ ops'[o].st = 0
                   /\ ops'[o].reports = ops[o].reports
          /\ (AfterFetch(o) /\ ops[o].st \notin {200, 404}) => Aborts(o)
          /\ (AfterCheckpointStep(o) /\ ops[o].st \notin {200, 403})
                => Aborts(o)]_vars

\* C19 witness: a save() on a writable file without checkpoints has written
\* and reported nothing although it created no checkpoint: the one event was
\* a 403 from the checkpoint step.
C19_Witness ==
    \E o \in OpIds :
        /\ ops[o].api = "save" /\ ops[o].pc = "done" /\ ops[o].wrote
        /\ ~ops[o].ckpt /\ ops[o].reports = {}
        /\ calls = 1 /\ events = 1 /\ ~moved /\ ~isDisposed
        /\ contentsModel.wr /\ ~hasCheckpointed
        /\ files[path].ckpts = <<>>
        /\ files[path].lm = StartTime + WriteTime

\* ----------------------------------------------------------------- saveAs()

\* The saveAs() of chain o ends in this step and leaves the context's path,
\* the session's path, dirty, the cached contents model and the storage as
\* they were; it has issued no write and starts no other promise chain.
EndsUntouched(o) ==
    /\ ops'[o].pc = "done"
    /\ ~ops'[o].wrote
    /\ \A k \in OpIds : k # o => ops'[k] = ops[k]
    /\ path' = path
    /\ sessionPath' = sessionPath
    /\ dirty' = dirty
    /\ contentsModel' = contentsModel
    /\ files' = files

\* C20: saveAs() issues the delete of the destination only in answer to
\* OVERWRITE in the overwrite dialog, and the storage changes on behalf of a
\* saveAs() only by that delete; a saveAs() whose path prompt or overwrite
\* prompt is cancelled ends with path, session path, dirty and the cached
\* contents model unchanged and with no delete and no write issued.
C20_DeleteNeedsOverwrite ==
    [][\A o \in OpIds :
          ops[o].kind = "saveAs" =>
             /\ (Steps(o) /\ ops'[o].pc = "delete" /\ ops[o].pc # "delete")
                   => /\ ops[o].pc = "overwrite"
                      /\ ops'[o].choice = "OVERWRITE"
             /\ (Steps(o) /\ files' # files)
                   => /\ ops[o].pc = "delete"
                      /\ ops[o].choice = "OVERWRITE"
                      /\ files' = [files EXCEPT ![ops[o].tpath] = NoFile]
             /\ (Steps(o) /\ ops[o].pc = "prompt" /\ ops'[o].kind = "saveAs"
                    /\ ops'[o].pc # "get")
                   => EndsUntouched(o)
             /\ (Steps(o) /\ ops[o].pc = "overwrite"
                    /\ ops'[o].choice # "OVERWRITE")
                   => EndsUntouched(o)]_vars

\* C20 witness: the destination exists, the user answered CANCEL to the
\* overwrite prompt, and saveAs() has fulfilled with the destination still
\* there.
C20_Witness ==
    \E o \in OpIds, p \in Paths :
        /\ ops[o].api = "saveAs" /\ ops[o].pc = "done"
        /\ ops[o].choice = "CANCEL" /\ ops[o].outcome = "fulfilled"
        /\ ~isDisposed
        /\ p # path /\ files[p].exists

\* ------------------------------------------------------- restoreCheckpoint()

IsRestore(o) == ops[o].kind = "restoreCheckpoint"

\* C21: restoreCheckpoint() issues its restore call either at once, for the
\* id it was given and without listing, or on the answer to listCheckpoints,
\* for the last id of the list it was given and the same path; when that
\* list is empty or the context is disposed by then, it issues nothing, the
\* storage is left alone and the promise fulfils.  The restore the service
\* performs gives the file the content of the checkpoint with that id.
C21_RestoresLast ==
    [][\A o \in OpIds :
          /\ (ops[o].kind = "none" /\ ops'[o].kind = "restoreCheckpoint")
                => \/ ops'[o].pc = "list" /\ ops'[o].cks = <<>>
                   \/ /\ ops'[o].pc = "restore" /\ Len(ops'[o].cks) = 1
                      /\ ~ops'[o].listed
          /\ (IsRestore(o) /\ ops[o].pc = "list" /\ ops[o].st = 200
                /\ Steps(o))
                => IF isDisposed \/ ops[o].cks = <<>>
                   THEN /\ ops'[o].pc = "done"
                        /\ ops'[o].outcome = "fulfilled"
                        /\ files' = files
                   ELSE /\ ops'[o].pc = "restore" /\ ops'[o].st = 0
                        /\ ops'[o].cks = <<ops[o].cks[Len(ops[o].cks)]>>
                        /\ ops'[o].tpath = ops[o].tpath
          /\ (IsRestore(o) /\ ops[o].pc = "restore" /\ ops[o].st = 0
                /\ ops'[o].st = 200)
                => \E i \in 1..Len(files[ops[o].tpath].ckpts) :
                      /\ files[ops[o].tpath].ckpts[i].id = ops[o].cks[1]
                      /\ files'[ops[o].tpath].content =
                             files[ops[o].tpath].ckpts[i].content]_vars

\* C21 witness: restoreCheckpoint() without an id found two checkpoints, and
\* the service has restored the second one, whose content is not the first
\* one's.
C21_Witness ==
    \E o \in OpIds :
        /\ IsRestore(o) /\ ops[o].pc = "restore" /\ ops[o].st = 200
        /\ ops[o].listed
        /\ Len(files[path].ckpts) = 2
        /\ ops[o].cks = <<files[path].ckpts[2].id>>
        /\ files[path].content = files[path].ckpts[2].content
        /\ files[path].content # files[path].ckpts[1].content

\* ------------------------------------------------------ the document manager

\* The contexts that have been created.
Created == {c \in CtxIds : ctxs[c] # NoContext}

\* The first context of the table that is one of `matching`, 0 when there is
\* none (find of @phosphor/algorithm).
FirstWhere(matching) ==
    IF \E i \in 1..Len(contexts) : contexts[i] \in matching
    THEN contexts[CHOOSE i \in 1..Len(contexts) :
                     /\ contexts[i] \in matching
                     /\ \A j \in 1..(i - 1) : contexts[j] \notin matching]
    ELSE 0

\* Variant: only a context that has finished loading is found.
FindContextReady(p, f) ==
    FirstWhere({c \in CtxIds : /\ ctxs[c].factoryName = f
                               /\ ctxs[c].path = p
                               /\ ctxs[c].ready})

\* DocumentManager._findContext.
FindContext(p, f) ==
    FirstWhere({c \in CtxIds : ctxs[c].factoryName = f /\ ctxs[c].path = p})

\* DocumentManager._contextForPath.
ContextForPath(p) == FirstWhere({c \in CtxIds : ctxs[c].path = p})

\* ArrayExt.removeFirstOf.
RemoveFirstOf(tbl, c) ==
    IF \E i \in 1..Len(tbl) : tbl[i] = c
    THEN LET i == CHOOSE i \in 1..Len(tbl) :
                      tbl[i] = c /\ \A j \in 1..(i - 1) : tbl[j] # c
         IN SubSeq(tbl, 1, i - 1) \o SubSeq(tbl, i + 1, Len(tbl))
    ELSE tbl

\* Variant: the disposed context stays in the table.
OnContextDisposedKeeps(tbl, c) == tbl

\* DocumentManager._onContextDisposed: the table without the context.
OnContextDisposed(tbl, c) == RemoveFirstOf(tbl, c)

\* The table after the contexts of `todo` were disposed, one after the other.
RECURSIVE AfterDisposals(_, _)
AfterDisposals(tbl, todo) ==
    IF todo = <<>> THEN tbl
    ELSE AfterDisposals(OnContextDisposed(tbl, Head(todo)), Tail(todo))

\* The widget manager closes every widget of a context: with its last widget
\* the context is disposed.  A disposed context keeps its path and factory.
Closed(r) == [NoContext EXCEPT !.path = r.path,
                               !.factoryName = r.factoryName,
                               !.isDisposed = TRUE]

\* The steps of the manager leave the context studied on its own alone.
Apart == UNCHANGED <<storageVars, contextVars, ops, handlerVars, utilVars>>

\* DocumentManager._createContext: a new context is pushed onto the table.
\* `populated` counts fromStore(), `saved` the save() of a new document.
CreateContext(c, p, f, which) ==
    /\ c \in CtxIds
    /\ ctxs' = [ctxs EXCEPT ![c] =
                  [path |-> p, factoryName |-> f, isDisposed |-> FALSE,
                   ready |-> FALSE,
                   populated |-> IF which = "open" THEN 1 ELSE 0,
                   saved |-> IF which = "create" THEN 1 ELSE 0,
                   widgets |-> 1]]
    /\ contexts' = Append(contexts, c)

\* DocumentManager._createOrOpenDocument: open reuses the context it finds
\* and creates one otherwise; create always creates one.  A widget is
\* created for the context and returned: the context has one widget more.
CreateOrOpenDocument(which, p, f) ==
    LET found == IF which = "open" THEN FindContext(p, f) ELSE 0
        fresh == Cardinality(Created) + 1
    IN /\ IF found # 0
          THEN /\ ctxs[found].widgets < MaxWidgets
               /\ ctxs' = [ctxs EXCEPT ![found].widgets = @ + 1]
               /\ contexts' = contexts
          ELSE CreateContext(fresh, p, f, which)
       /\ Apart

\* DocumentManager.open.
Open(p, f) == CreateOrOpenDocument("open", p, f)

\* DocumentManager.createNew.
CreateNew(p, f) == CreateOrOpenDocument("create", p, f)

\* context.ready resolves: the context has been populated or saved.
Ready(c) ==
    /\ c \in Created
    /\ ~ctxs[c].ready /\ ~ctxs[c].isDisposed
    /\ ctxs' = [ctxs EXCEPT ![c].ready = TRUE]
    /\ UNCHANGED contexts
    /\ Apart

\* A widget of context c is closed; the last one takes the context along.
CloseWidget(c) ==
    /\ c \in Created
    /\ ctxs[c].widgets > 0
    /\ IF ctxs[c].widgets = 1
       THEN /\ ctxs' = [ctxs EXCEPT ![c] = Closed(@)]
            /\ contexts' = OnContextDisposed(contexts, c)
       ELSE /\ ctxs' = [ctxs EXCEPT ![c].widgets = @ - 1]
            /\ contexts' = contexts
    /\ Apart

\* DocumentManager.closeFile.
CloseFile(p) ==
    LET c == ContextForPath(p) IN
    /\ c # 0
    /\ ctxs' = [ctxs EXCEPT ![c] = Closed(@)]
    /\ contexts' = OnContextDisposed(contexts, c)
    /\ Apart

\* DocumentManager.closeAll.
CloseAll ==
    /\ contexts # <<>>
    /\ ctxs' = [c \in CtxIds |->
                  IF \E i \in 1..Len(contexts) : contexts[i] = c
                  THEN Closed(ctxs[c]) ELSE ctxs[c]]
    /\ contexts' = AfterDisposals(contexts, contexts)
    /\ Apart

\* DocumentManager.findWidget: the context whose widget is looked up.
FindWidget(p) == ContextForPath(p)

\* The contents manager reports the rename of p to q: every live context on
\* p follows (Context._onFileChanged).
RenameNotified(p, q) ==
    /\ p # q
    /\ \E c \in Created : ~ctxs[c].isDisposed /\ ctxs[c].path = p
    /\ ctxs' = [c \in CtxIds |->
                  IF c \in Created /\ ~ctxs[c].isDisposed /\ ctxs[c].path = p
                  THEN [ctxs[c] EXCEPT !.path = q] ELSE ctxs[c]]
    /\ UNCHANGED contexts
    /\ Apart

\* saveAs() of context c reaches _finishSaveAs: the context takes the path.
SavedAs(c, q) ==
    /\ c \in Created
    /\ ~ctxs[c].isDisposed
    /\ ctxs[c].path # q
    /\ ctxs' = [ctxs EXCEPT ![c].path = q]
    /\ UNCHANGED contexts
    /\ Apart

\* The state after the construction of the manager; the context studied on
\* its own does not take part.
InitManager ==
    /\ NoManager
    /\ NoHandler
    /\ NoUtil
    /\ files = [p \in Paths |-> NoFile]
    /\ clock = StartTime
    /\ nextId = 1
    /\ events = 0
    /\ path = "a"
    /\ fileFormat = FileFormat
    /\ content = <<>>
    /\ dirty = FALSE
    /\ contentsModel = NoMeta
    /\ hasCheckpointed = FALSE
    /\ isDisposed = FALSE
    /\ calls = 0
    /\ sessionPath = "a"
    /\ collaborative = FALSE
    /\ persisted = <<>>
    /\ made = 0
    /\ writes = 0
    /\ moved = FALSE
    /\ pathChanged = <<>>
    /\ ops = [o \in OpIds |-> NoOp]

NextManager ==
    \/ \E p \in Paths, f \in Factories : Open(p, f)
    \/ \E p \in Paths, f \in Factories : CreateNew(p, f)
    \/ \E c \in CtxIds : Ready(c)
    \/ \E c \in CtxIds : CloseWidget(c)
    \/ \E p \in Paths : CloseFile(p)
    \/ CloseAll
    \/ \E p \in Paths, q \in Paths : RenameNotified(p, q)
    \/ \E c \in CtxIds, q \in Paths : SavedAs(c, q)

SpecManager == InitManager /\ [][NextManager]_vars

\* ---------------------------------------------------------------------------
\* One context per (path, model factory name)
\* ---------------------------------------------------------------------------

\* The entries of the table that hold a live context.
Live == {i \in 1..Len(contexts) : ~ctxs[contexts[i]].isDisposed}

\* Two entries of the table hold contexts with the same key.
SameKey(i, j) ==
    /\ ctxs[contexts[i]].path = ctxs[contexts[j]].path
    /\ ctxs[contexts[i]].factoryName = ctxs[contexts[j]].factoryName

\* C22: the table of the manager never holds two live contexts with the same
\* (path, model factory name) pair, whatever sequence of open, createNew,
\* rename notifications, saveAs and widget closes led to it.
C22_OneContextPerKey ==
    \A i \in Live, j \in Live : i # j => ~SameKey(i, j)

\* ---------------------------------------------------------------------------
\* Concurrent opens share one context
\* ---------------------------------------------------------------------------

\* This step creates context c through open: it is populated from storage.
OpensFresh(c) ==
    /\ ctxs[c] = NoContext
    /\ ctxs'[c] # NoContext
    /\ ctxs'[c].populated = 1

\* This step hands out one more widget of context c, which exists already.
OpensShared(c) ==
    /\ ctxs[c] # NoContext
    /\ ctxs'[c].widgets = ctxs[c].widgets + 1

\* An entry of the table holds a live context with the key (p, f).
Held(p, f) ==
    \E i \in Live : /\ ctxs[contexts[i]].path = p
                    /\ ctxs[contexts[i]].factoryName = f

\* C23: when open is called again for the path and factory of a context of
\* the table, whether or not that context has finished loading, no context is
\* created: open creates one only when the table holds none with that key,
\* a context is populated from storage once, at its creation, and the call
\* that finds a context returns a widget of that very context, which stays
\* as it is otherwise.
C23_OpenSharesContext ==
    /\ \A c \in CtxIds : ctxs[c].populated <= 1
    /\ [][\A c \in CtxIds :
            /\ OpensFresh(c) =>
                 ~Held(ctxs'[c].path, ctxs'[c].factoryName)
            /\ OpensShared(c) =>
                 /\ \E i \in Live : contexts[i] = c
                 /\ contexts' = contexts
                 /\ ctxs' = [ctxs EXCEPT ![c].widgets = @ + 1]
         ]_vars

\* Two opens of the same document before its context has finished loading:
\* one context, populated once, with two widgets.
C23_Witness ==
    /\ Cardinality(Created) = 1
    /\ \E c \in Created : /\ ~ctxs[c].ready
                          /\ ~ctxs[c].isDisposed
                          /\ ctxs[c].populated = 1
                          /\ ctxs[c].widgets = 2
                          /\ contexts = <<c>>

\* ---------------------------------------------------------------------------
\* Disposed contexts leave the table
\* ---------------------------------------------------------------------------

\* A lookup of the manager answers no context or a live one.
LiveOrNone(c) == c = 0 \/ ~ctxs[c].isDisposed

\* C24: a context leaves the table of the manager when it is disposed, so no
\* entry of the table is a disposed context, no lookup of the manager (the
\* one of open, the one of findWidget and closeFile) answers a disposed
\* context, a disposed context is never given a widget again, and an open of
\* the path of a disposed context creates a context.
C24_DisposedLeavesTable ==
    /\ [](\A i \in 1..Len(contexts) : ~ctxs[contexts[i]].isDisposed)
    /\ [](\A p \in Paths, f \in Factories :
            /\ LiveOrNone(FindContext(p, f))
            /\ LiveOrNone(ContextForPath(p))
            /\ LiveOrNone(FindWidget(p)))
    /\ [][\A c \in CtxIds :
            /\ (~ctxs[c].isDisposed /\ ctxs'[c].isDisposed) =>
                 \A i \in 1..Len(contexts') : contexts'[i] # c
            /\ ctxs[c].isDisposed => ctxs'[c] = ctxs[c]
         ]_vars

\* A context was disposed and a later open of its path and factory created
\* another one, the only one of the table.
C24_Witness ==
    \E c \in Created, d \in Created :
        /\ ctxs[c].isDisposed
        /\ ~ctxs[d].isDisposed
        /\ ctxs[d].populated = 1
        /\ ctxs[d].path = ctxs[c].path
        /\ ctxs[d].factoryName = ctxs[c].factoryName
        /\ contexts = <<d>>

\* ---------------------------------------------------------------------------
\* The save handler (autosave)
\* ---------------------------------------------------------------------------

\* The saveInterval values a client assigns, in seconds.
SaveIntervals == {60}

\* The durations a save is measured to take, in ms: the difference of two
\* readings of the wall clock.
Durations == {1000, 50000}

\* Variant: the lower of the two.
Lower(a, b) == IF a <= b THEN a ELSE b

\* Math.max
Max(a, b) == IF a >= b THEN a ELSE b

\* The timers that are pending.
PendingTimers == {h \in TimerIds : timers[h] # 0}

\* Variant: the handle is not cleared.
ClearTimeoutNot(t, h) == t

\* clearTimeout(handle): a handle that is not pending is ignored.
ClearTimeout(t, h) == [i \in TimerIds |-> IF i = h THEN 0 ELSE t[i]]

\* window.setTimeout: the handle of the new timer; handles of timers that
\* have fired or were cleared are free again.
NewHandle(t) == CHOOSE h \in TimerIds :
                    t[h] = 0 /\ \A i \in TimerIds : t[i] = 0 => h <= i

\* SaveHandler._setTimer, with the timers t, the flag _isActive and the
\* value of _interval at the time of the call.
SetTimer(t, active, iv) ==
    LET cleared == ClearTimeout(t, autosaveTimer) IN
    IF ~active
    THEN /\ timers' = cleared
         /\ autosaveTimer' = autosaveTimer
    ELSE /\ \E h \in TimerIds : cleared[h] = 0
         /\ timers' = [cleared EXCEPT ![NewHandle(cleared)] = iv]
         /\ autosaveTimer' = NewHandle(cleared)

\* The context and the manager take no part in a step of the handler alone.
HandlerOnly == UNCHANGED <<storageVars, contextVars, ops, besideVars>>

\* SaveHandler.start; the manager calls it when the context is ready.
Start ==
    /\ isActive' = TRUE
    /\ SetTimer(timers, TRUE, interval)
    /\ UNCHANGED <<handlerDisposed, minInterval, interval, readOnly,
                   autosaves, duration>>
    /\ HandlerOnly

\* Variant: the pending timer is left alone.
StopKeepsTimer ==
    /\ isActive
    /\ isActive' = FALSE
    /\ UNCHANGED <<timers, autosaveTimer, handlerDisposed, minInterval,
                   interval, readOnly, autosaves, duration>>
    /\ HandlerOnly

\* SaveHandler.stop.
Stop ==
    /\ isActive
    /\ isActive' = FALSE
    /\ timers' = ClearTimeout(timers, autosaveTimer)
    /\ UNCHANGED <<autosaveTimer, handlerDisposed, minInterval, interval,
                   readOnly, autosaves, duration>>
    /\ HandlerOnly

\* The saveInterval setter.
SetSaveInterval(value) ==
    /\ minInterval # value * 1000 \/ interval # value * 1000
    /\ minInterval' = value * 1000
    /\ interval' = value * 1000
    /\ IF isActive
       THEN SetTimer(timers, isActive, value * 1000)
       ELSE UNCHANGED <<timers, autosaveTimer>>
    /\ UNCHANGED <<isActive, handlerDisposed, readOnly, autosaves, duration>>
    /\ HandlerOnly

\* The model is made read-only or writable again.
SetReadOnly(b) ==
    /\ readOnly # b
    /\ readOnly' = b
    /\ UNCHANGED <<isActive, handlerDisposed, minInterval, interval,
                   autosaveTimer, timers, autosaves, duration>>
    /\ HandlerOnly

\* Variant: a read-only model is saved as well.
BailIgnoresReadOnly == ~dirty \/ InDialog

\* SaveHandler._save: the test that ends the handler before it saves.
Bail == ~dirty \/ readOnly \/ InDialog

\* The timer with handle h fires: SaveHandler._save.  The timer is set
\* again first; then, unless the handler bails out, context.save() is called.
TimerFire(h) ==
    /\ h \in PendingTimers
    /\ SetTimer([timers EXCEPT ![h] = 0], isActive, interval)
    /\ IF Bail
       THEN /\ UNCHANGED <<storageVars, contextVars, ops, autosaves>>
       ELSE \E o \in OpIds : /\ CallSave(o)
                             /\ autosaves' = autosaves \cup {o}
    /\ UNCHANGED <<isActive, handlerDisposed, minInterval, interval,
                   readOnly, duration, besideVars>>

\* context.save() of the handler is fulfilled, d ms after it was called:
\* the continuation of SaveHandler._save.  save() catches every error of
\* its chain, so its promise is never rejected.
AutosaveThen(o, d) ==
    /\ o \in autosaves
    /\ ops[o].pc = "done" /\ ops[o].outcome = "fulfilled"
    /\ Forget(o)
    /\ autosaves' = autosaves \ {o}
    /\ IF handlerDisposed
       THEN UNCHANGED <<interval, timers, autosaveTimer, duration>>
       ELSE /\ duration' = d
            /\ interval' = Max(Multiplier * d, minInterval)
            /\ SetTimer(timers, isActive, Max(Multiplier * d, minInterval))
    /\ UNCHANGED <<isActive, handlerDisposed, minInterval, readOnly,
                   besideVars>>

\* SaveHandler.dispose.
HandlerDispose ==
    /\ handlerDisposed' = TRUE
    /\ timers' = ClearTimeout(timers, autosaveTimer)
    /\ UNCHANGED <<isActive, minInterval, interval, autosaveTimer, readOnly,
                   autosaves, duration>>

\* Context.dispose emits disposed, to which the handler is connected.
DisposeContext ==
    /\ Dispose
    /\ IF handlerDisposed THEN UNCHANGED handlerVars ELSE HandlerDispose
    /\ UNCHANGED besideVars

\* A step of the context: when it emits fileChanged (_updateContentsModel
\* with another last_modified) the handler, unless disposed, sets its timer.
React ==
    /\ IF ~handlerDisposed /\ contentsModel'.lm # contentsModel.lm
       THEN SetTimer(timers, isActive, interval)
       ELSE UNCHANGED <<timers, autosaveTimer>>
    /\ UNCHANGED <<isActive, handlerDisposed, minInterval, interval,
                   readOnly, autosaves, duration, besideVars>>

\* A context with its save handler: the document is edited, another client
\* writes the file, the handler is started, stopped and reconfigured, its
\* timer fires and the saves it starts run to their end.
NextAutosave ==
    \/ NoneSettled /\ Start
    \/ NoneSettled /\ Stop
    \/ \E v \in SaveIntervals : NoneSettled /\ SetSaveInterval(v)
    \/ \E b \in BOOLEAN : NoneSettled /\ SetReadOnly(b)
    \/ \E h \in TimerIds : NoneSettled /\ TimerFire(h)
    \/ \E o \in OpIds, d \in Durations : AutosaveThen(o, d)
    \/ NoneSettled /\ DisposeContext
    \/ \E o \in OpIds : NoneSettled /\ ServeGet(o) /\ React
    \/ \E o \in OpIds : NoneSettled /\ HandleMaybeSave(o) /\ React
    \/ \E o \in OpIds, b \in ConflictButtons :
          NoneSettled /\ HandleTimeConflict(o, b) /\ React
    \/ \E o \in OpIds : NoneSettled /\ HandleSaveRevert(o) /\ React
    \/ \E o \in OpIds : NoneSettled /\ ServeList(o) /\ React
    \/ \E o \in OpIds : NoneSettled /\ HandleListForSave(o) /\ React
    \/ \E o \in OpIds : NoneSettled /\ ServeCreate(o) /\ React
    \/ \E o \in OpIds : NoneSettled /\ HandleCreateForSave(o) /\ React
    \/ \E o \in OpIds : NoneSettled /\ ServeSave(o) /\ React
    \/ \E o \in OpIds : NoneSettled /\ HandleWrite(o) /\ React
    \/ \E o \in OpIds : NoneSettled /\ ServeFailure(o, 500) /\ React
    \/ \E c \in EditContents : NoneSettled /\ Edit(c) /\ React
    \/ \E p \in Paths, d \in Deltas :
          NoneSettled /\ ExternalWrite(p, <<"a">>, d) /\ React

\* A writable text document without checkpoints, not collaborative, right
\* after its context and its handler were constructed.
InitAutosave ==
    /\ Init
    /\ ~collaborative
    /\ contentsModel.wr
    /\ persisted = <<"a">>
    /\ files["a"].ckpts = <<>>

SpecAutosave == InitAutosave /\ [][NextAutosave]_vars

\* ---------------------------------------------------------------------------
\* The interval follows the duration of the save
\* ---------------------------------------------------------------------------

\* In this step a save() the handler called has completed and the handler,
\* which is not disposed, runs its continuation.
AutosaveCompletes ==
    /\ ~handlerDisposed
    /\ \E o \in autosaves : o \notin autosaves'

\* The interval the handler is to have after a save that took d ms.
Adapted(d) == IF 10 * d >= minInterval THEN 10 * d ELSE minInterval

\* The one pending timer is the one the handler holds, set to its interval.
Rearmed ==
    /\ PendingTimers' = {autosaveTimer'}
    /\ timers'[autosaveTimer'] = interval'

\* C25 (as stated): after each save() of the handler that completes while
\* the handler is not disposed, interval is max(10 * d, minInterval) for the
\* measured duration d, and the timer is rearmed with that interval.
C25_IntervalAdaptsAndRearms ==
    [][AutosaveCompletes =>
          /\ interval' = Adapted(duration')
          /\ Rearmed]_vars

\* C25 (amended): the interval is max(10 * d, minInterval), 500000 for
\* d = 50000 and 120000 for d = 1000 when minInterval is 120000; the timer is
\* rearmed with that interval if the handler is active, and no timer is
\* pending if it has been stopped.
C25_IntervalAdapts ==
    [][AutosaveCompletes =>
          /\ interval' = Adapted(duration')
          /\ (minInterval = 120000 /\ duration' = 50000) => interval' = 500000
          /\ (minInterval = 120000 /\ duration' = 1000) => interval' = 120000
          /\ IF isActive THEN Rearmed ELSE PendingTimers' = {}]_vars

\* A save of the handler took 50000 ms: the timer is pending with 500000 ms.
C25_Witness ==
    /\ isActive /\ ~handlerDisposed
    /\ minInterval = 120000
    /\ duration = 50000
    /\ interval = 500000
    /\ PendingTimers = {autosaveTimer}
    /\ timers[autosaveTimer] = 500000
    /\ writes = 1

\* ---------------------------------------------------------------------------
\* The handler saves a dirty, writable model only
\* ---------------------------------------------------------------------------

\* In this step the handler calls context.save().
AutosaveStarts == \E o \in autosaves' : o \notin autosaves

\* C26: the handler calls context.save() only on a timer fire at which the
\* model is dirty and not read-only; a timer fire at which the model is not
\* dirty or is read-only starts no operation of the context.
C26_SavesDirtyWritableOnly ==
    [][/\ AutosaveStarts =>
            /\ dirty /\ ~readOnly
            /\ \E h \in TimerIds : timers[h] # 0 /\ TimerFire(h)
       /\ \A h \in TimerIds :
            (TimerFire(h) /\ (~dirty \/ readOnly)) =>
                 /\ ops' = ops
                 /\ calls' = calls
                 /\ autosaves' = autosaves]_vars

\* A save of the handler is in flight, called at a fire with the model dirty
\* and writable; the timer was set again before.
C26_Witness ==
    \E o \in autosaves :
        /\ ops[o].api = "save"
        /\ ops[o].pc = "get" /\ ops[o].st = 0
        /\ dirty /\ ~readOnly
        /\ PendingTimers # {}

\* ---------------------------------------------------------------------------
\* A fire while a conflict dialog is open
\* ---------------------------------------------------------------------------

\* A save() of the context has shown the conflict dialog and waits for the
\* answer.
DialogOpen == \E o \in OpIds : ops[o].kind = "save" /\ ops[o].pc = "dialog"

\* C27: while the conflict dialog of an earlier save() is unanswered, no
\* timer fire of the handler starts another save() on the context.
C27_NoSaveDuringDialog ==
    [][DialogOpen => ~AutosaveStarts]_vars

\* ---------------------------------------------------------------------------
\* One pending timer while the handler is active
\* ---------------------------------------------------------------------------

\* C28: from start() to the next stop() or dispose(), between the steps of
\* the handler exactly one timer is pending: the one whose handle the handler
\* holds, set to the current interval.  A fire sets the timer again before
\* anything else and every setting clears the timer held before, so this is
\* so whether the fire saved or not and however the save ended.
C28_OneTimerWhileActive ==
    (isActive /\ ~handlerDisposed) =>
        /\ PendingTimers = {autosaveTimer}
        /\ timers[autosaveTimer] = interval

\* The handler is active, a save it called has ended without a write (the
\* storage failed or the dialog was cancelled), and one timer is pending.
C28_Witness ==
    /\ isActive /\ ~handlerDisposed
    /\ autosaves = {}
    /\ duration # 0
    /\ calls = 1 /\ writes = 0
    /\ Cardinality(PendingTimers) = 1

\* ---------------------------------------------------------------------------
\* A stopped handler
\* ---------------------------------------------------------------------------

\* C29: while the handler is stopped no timer is pending, and no step taken
\* while it is stopped starts a save() of the handler: not a fileChanged of
\* the context, not an assignment of saveInterval, and not the completion of
\* a save that was in flight when stop() was called.
C29_StoppedStaysStopped ==
    /\ [](~isActive => PendingTimers = {})
    /\ [][~isActive => ~AutosaveStarts]_vars

\* The handler was stopped while a save it had called was in flight; the
\* save has now written the file (fileChanged) and settled, saveInterval was
\* assigned, and no timer is pending.
C29_Witness ==
    /\ ~isActive /\ ~handlerDisposed
    /\ \E o \in autosaves : ops[o].pc = "done" /\ ops[o].wrote
    /\ minInterval = 60000
    /\ PendingTimers = {}

\* ---------------------------------------------------------------------------
\* A disposed handler
\* ---------------------------------------------------------------------------

\* C30: the disposal of the context disposes its handler, and from then on
\* no timer is pending and the handler calls save() no more, start() and the
\* saveInterval setter included.
C30_DisposedHandlerInert ==
    /\ [](isDisposed => handlerDisposed)
    /\ [](handlerDisposed => PendingTimers = {})
    /\ [][handlerDisposed => ~AutosaveStarts]_vars

\* ---------------------------------------------------------------------------
\* fileChanged
\* ---------------------------------------------------------------------------

\* In this step the write of save() o, or the fetch of revert() o, is
\* answered with success and the continuation of the operation runs.
Succeeds(o) ==
    /\ \/ Waiting(o, "save", "write")
       \/ Waiting(o, "revert", "load")
    /\ ops[o].st = 200
    /\ Steps(o)

\* Context._updateContentsModel emits fileChanged in this step: the cached
\* model is replaced by one with another last_modified (or had none).
FileChangedEmitted ==
    /\ contentsModel' # contentsModel
    /\ contentsModel.lm = 0 \/ contentsModel'.lm # contentsModel.lm

\* The metadata the signal carries is the one the storage delivered to o.
CarriesMetadata(o) ==
    contentsModel' = [path |-> ops[o].meta.path, lm |-> ops[o].meta.lm,
                      wr |-> ops[o].meta.wr]

C38_PathChangeAnnounced ==
    [][path' # path => pathChanged' = Append(pathChanged, path')]_vars

\* ---------------------------------------------------------------------------
\* The completer handler
\* ---------------------------------------------------------------------------

\* The texts a completion is requested for.
Texts == {"a", "b"}

\* msg.content.status of a reply.
Statuses == {"ok", "error"}

\* The context, its manager and save handler and the promise helpers take no
\* part in a step of the completer handler.
CompleterOnly ==
    UNCHANGED <<storageVars, contextVars, ops, managerVars, handlerVars,
                queueVars, chainVars>>

\* CellCompleterHandler.makeRequest: without a kernel (after dispose) the
\* request is rejected; otherwise it is numbered and sent to the kernel.
MakeRequest(text) ==
    /\ ~completerDisposed
    /\ pending < MaxRequests
    /\ pending' = pending + 1
    /\ requests' = requests \cup {[id |-> pending + 1, text |-> text]}
    /\ UNCHANGED <<completerDisposed, completerModel, replied>>
    /\ CompleterOnly

\* Variant: a reply is never taken for superseded.
SupersededNever(id) == FALSE

\* CellCompleterHandler.onReply: a newer request has been made.
Superseded(id) == id # pending

\* CellCompleterHandler.onReply: the model after the reply to request r.
Applied(r, status) ==
    IF completerDisposed \/ Superseded(r.id)
    THEN completerModel
    ELSE IF status # "ok"
         THEN NoCompletion
         ELSE [original |-> r.id, options |-> {r.text}]

\* The kernel answers request r: the .then of requestComplete calls onReply.
OnReply(r, status) ==
    /\ r \in requests
    /\ requests' = requests \ {r}
    /\ replied' = Append(replied, r.id)
    /\ completerModel' = Applied(r, status)
    /\ UNCHANGED <<pending, completerDisposed>>
    /\ CompleterOnly

\* CellCompleterHandler.dispose.
DisposeCompleter ==
    /\ ~completerDisposed
    /\ completerDisposed' = TRUE
    /\ UNCHANGED <<pending, completerModel, requests, replied>>
    /\ CompleterOnly

\* A completer handler on its own.
InitCompleter ==
    /\ InitManager

NextCompleter ==
    \/ \E text \in Texts : MakeRequest(text)
    \/ \E r \in requests, status \in Statuses : OnReply(r, status)
    \/ DisposeCompleter

SpecCompleter == InitCompleter /\ [][NextCompleter]_vars

\* C32: a reply changes the model of the completer only if the handler is
\* not disposed and the reply answers the request made last; a reply to a
\* superseded request, whenever it arrives, and a reply that arrives after
\* dispose() leave the model as it is.
C32_OnlyLatestReplyApplies ==
    [][/\ \A r \in requests :
             (r \notin requests' /\ (completerDisposed \/ r.id # pending))
                 => completerModel' = completerModel
       /\ completerModel' # completerModel =>
             /\ ~completerDisposed
             /\ \E r \in requests : r \notin requests' /\ r.id = pending]_vars

\* The reply to the second request arrived before the reply to the first:
\* the model holds the completion of the second.
C32_Witness ==
    /\ replied = <<2, 1>>
    /\ pending = 2
    /\ completerModel.original = 2
    /\ ~completerDisposed

\* ---------------------------------------------------------------------------
\* Overlapping operations on one context
\* ---------------------------------------------------------------------------

\* save() and revert() are called while an earlier call is still in flight
\* (a manual save racing with an autosave, a revert during a save); the
\* storage service answers in any order, the user keeps editing, no other
\* client touches the storage and no call fails.  A settled promise stays
\* until its caller drops it.
NextOverlap ==
    \/ \E o \in OpIds : CallSave(o) /\ Quiet
    \/ \E o \in OpIds : CallRevert(o) /\ Quiet
    \/ \E o \in OpIds : ServeGet(o) /\ Quiet
    \/ \E o \in OpIds : HandleMaybeSave(o) /\ Quiet
    \/ \E o \in OpIds, b \in ConflictButtons :
          HandleTimeConflict(o, b) /\ Quiet
    \/ \E o \in OpIds : HandleSaveRevert(o) /\ Quiet
    \/ \E o \in OpIds : ServeList(o) /\ Quiet
    \/ \E o \in OpIds : HandleListForSave(o) /\ Quiet
    \/ \E o \in OpIds : ServeCreate(o) /\ Quiet
    \/ \E o \in OpIds : HandleCreateForSave(o) /\ Quiet
    \/ \E o \in OpIds : ServeSave(o) /\ Quiet
    \/ \E o \in OpIds : HandleWrite(o) /\ Quiet
    \/ \E o \in OpIds : HandleRevert(o) /\ Quiet
    \/ \E c \in EditContents : Edit(c) /\ Quiet
    \/ \E o \in OpIds : Forget(o) /\ Quiet

SpecOverlap == InitAutosave /\ [][NextOverlap]_vars

\* ---------------------------------------------------------------------------
\* The later completion decides the cached contents model
\* ---------------------------------------------------------------------------

\* In this step the promise chain of operation o ends with a contents model
\* in hand: the response of save()'s write, the response of revert()'s
\* fetch, or, after REVERT in the conflict dialog, the model save() fetched.
CompletesWith(o, m) ==
    /\ Steps(o)
    /\ ops[o].st = 200
    /\ ops'[o].pc = "done"
    /\ \/ Waiting(o, "save", "write") /\ m = ops[o].meta
       \/ Waiting(o, "revert", "load") /\ m = ops[o].meta
       \/ Waiting(o, "save", "revert") /\ m = ops[o].held

\* The other of a save() and a revert() has completed before.
OtherCompleted(o) ==
    \E k \in OpIds :
        /\ k # o
        /\ ops[k].pc = "done"
        /\ {ops[k].api, ops[o].api} = {"save", "revert"}

\* C33: when a save() and a revert() on one context overlap, the one that
\* completes last leaves its metadata in contentsMetadata, and the cached
\* metadata changes in no step but a completion: after both have completed
\* contentsMetadata is what was delivered to the later one.
C33_LaterCompletionWins ==
    [][/\ \A o \in OpIds : \A m \in {ops[o].meta, ops[o].held} :
            (CompletesWith(o, m) /\ OtherCompleted(o)) =>
                contentsModel' = [path |-> m.path, lm |-> m.lm, wr |-> m.wr]
       /\ contentsModel' # contentsModel =>
            \E o \in OpIds : \E m \in {ops[o].meta, ops[o].held} :
                CompletesWith(o, m)]_vars

\* A revert() fetched the file before an overlapping save() wrote it and
\* completed after that save(): both have completed and the cached metadata
\* is the revert's, older than the file.
C33_Witness ==
    /\ \E o, k \in OpIds :
          /\ ops[o].api = "save" /\ ops[o].pc = "done" /\ ops[o].wrote
          /\ ops[k].api = "revert" /\ ops[k].pc = "done"
          /\ ops[k].reports = {}
    /\ contentsModel.lm = StartTime
    /\ files[path].lm > StartTime

\* ---------------------------------------------------------------------------
\* Overlapping saves
\* ---------------------------------------------------------------------------

\* C34: when two save() calls overlap on a fresh writable context, at most
\* one checkpoint is created for the path.
C34_OneCheckpointForOverlappingSaves ==
    /\ made <= 1
    /\ Len(files[path].ckpts) <= 1

\* The autosaves that have been started and have not completed.
InFlight == {o \in autosaves : ops[o].kind = "save" /\ ops[o].pc # "done"}

\* C35: the scheduler never has two save() calls of its own in flight on the
\* context at the same time.
C35_OneAutosaveInFlight == Cardinality(InFlight) <= 1

\* In this step a save() completes whose write succeeded, on a live context,
\* while the model holds another content than the one that was serialized
\* for the write.
WroteOlderContent(o) ==
    /\ Waiting(o, "save", "write")
    /\ ops[o].st = 200
    /\ Steps(o)
    /\ ~isDisposed
    /\ content # ops[o].body

\* C36: if the model content is edited after save() has serialized it for
\* the write and before that write completes, dirty is true once that save()
\* has completed.
C36_EditDuringWriteStaysDirty ==
    [][\A o \in OpIds : WroteOlderContent(o) => dirty']_vars

\* C37: with no external writer, no save() finds a conflict: no interleaving
\* of overlapping save() calls and of their storage responses opens the
\* conflict dialog.
C37_NoConflictWithOwnWrite ==
    \A o \in OpIds : (events = 0 /\ IsSave(o)) => ~ops[o].conflict

\* ---------------------------------------------------------------------------
\* The promise queue
\* ---------------------------------------------------------------------------

\* How the promise of a callback settles.
Outcomes == {"fulfilled", "rejected"}

\* The context, its manager and save handler, the completer handler and the
\* promise chain take no part in a step of the promise queue.
QueueOnly ==
    UNCHANGED <<storageVars, contextVars, ops, managerVars, handlerVars,
                completerVars, chainVars>>

\* The execute() calls made on the queue so far.
Executed == {k \in ExecuteIds : queueCalls[k].state # "none"}

\* The elements of a sequence.
Range(s) == {s[i] : i \in 1..Len(s)}

\* Array.prototype.shift on _outstanding: the first element goes, if any.
Shift(s) == IF s = <<>> THEN s ELSE Tail(s)

\* The promise execute() call j pushed to _outstanding has resolved: the
\* .then callback of its Promise.all has run, that is, callback j has been
\* invoked; the promise callback j returned is not chained to it.
Resolved(j) == queueCalls[j].state \in {"running", "settled"}

\* PromiseQueue.execute: the call.  The callback waits for a copy of
\* _outstanding, and the promise of that wait is pushed to _outstanding.
QueueExecute(k) ==
    /\ k = Cardinality(Executed) + 1
    /\ queueCalls' = [queueCalls EXCEPT ![k] =
                        [state |-> "waiting", after |-> Range(queueOutstanding),
                         outcome |-> "none"]]
    /\ queueOutstanding' = Append(queueOutstanding, k)
    /\ QueueOnly

\* PromiseQueue.execute: Promise.all(...) has resolved and its .then invokes
\* the callback.
QueueInvoke(k) ==
    /\ queueCalls[k].state = "waiting"
    /\ \A j \in queueCalls[k].after : Resolved(j)
    /\ queueCalls' = [queueCalls EXCEPT ![k].state = "running"]
    /\ UNCHANGED queueOutstanding
    /\ QueueOnly

\* PromiseQueue.execute: the promise of the callback settles; the delegate
\* is settled alike and the first element of _outstanding is removed.
QueueSettle(k, outcome) ==
    /\ queueCalls[k].state = "running"
    /\ queueCalls' = [queueCalls EXCEPT ![k].state = "settled",
                                        ![k].outcome = outcome]
    /\ queueOutstanding' = Shift(queueOutstanding)
    /\ QueueOnly

\* A promise queue on its own.
NextQueue ==
    \/ \E k \in ExecuteIds : QueueExecute(k)
    \/ \E k \in ExecuteIds : QueueInvoke(k)
    \/ \E k \in ExecuteIds, outcome \in Outcomes : QueueSettle(k, outcome)

SpecQueue == InitManager /\ [][NextQueue]_vars

\* C39: callbacks given to PromiseQueue.execute run one at a time in
\* submission order: while a callback has been invoked and its promise has
\* not settled, the promise of every callback submitted before it has
\* settled.
C39_CallbacksRunOneAtATime ==
    \A k \in ExecuteIds :
        queueCalls[k].state = "running" =>
            \A j \in ExecuteIds : j < k => queueCalls[j].state = "settled"

\* ---------------------------------------------------------------------------
\* The promise chain
\* ---------------------------------------------------------------------------

\* The context, its manager and save handler, the completer handler and the
\* promise queue take no part in a step of the promise chain.
ChainOnly ==
    UNCHANGED <<storageVars, contextVars, ops, managerVars, handlerVars,
                completerVars, queueVars>>

\* The execute() calls made on the chain so far.
Submitted == Cardinality({k \in ExecuteIds : chainCalls[k].state # "none"})

\* PromiseDelegate.resolve and reject: a delegate that is pending takes the
\* new state; one that was resolved before ignores the call.
Settle(ds, d, state, value) ==
    IF ds[d].state = "pending"
    THEN [ds EXCEPT ![d] = [state |-> state, value |-> value]]
    ELSE ds

\* PromiseChain.execute: the call.  The outstanding delegate, if any, is
\* resolved with the promise of the new delegate, the new delegate becomes
\* the outstanding one and the callback is invoked.
ChainExecute(k) ==
    /\ k = Submitted + 1
    /\ delegates' =
          [(IF chainOutstanding # 0
            THEN Settle(delegates, chainOutstanding, "follows", k)
            ELSE delegates) EXCEPT ![k] = [state |-> "pending", value |-> 0]]
    /\ chainOutstanding' = k
    /\ chainCalls' = [chainCalls EXCEPT ![k].state = "running"]
    /\ ChainOnly

\* PromiseChain.execute: the promise of callback k settles.  Its .then or
\* .catch settles the delegate that is outstanding now, with the outcome of
\* callback k, and clears _outstanding; when _outstanding is null already
\* the handler throws a TypeError and nothing changes.
ChainFinish(k, outcome) ==
    /\ chainCalls[k].state = "running"
    /\ chainCalls' = [chainCalls EXCEPT ![k].state = "settled",
                                        ![k].outcome = outcome]
    /\ IF chainOutstanding = 0
       THEN UNCHANGED <<delegates, chainOutstanding>>
       ELSE /\ delegates' = Settle(delegates, chainOutstanding, outcome, k)
            /\ chainOutstanding' = 0
    /\ ChainOnly

\* A promise chain on its own.
NextChain ==
    \/ \E k \in ExecuteIds : ChainExecute(k)
    \/ \E k \in ExecuteIds, outcome \in Outcomes : ChainFinish(k, outcome)

SpecChain == InitManager /\ [][NextChain]_vars

\* The delegate whose state the promise of delegate d takes: a delegate that
\* was resolved with the promise of another follows that one.
RECURSIVE Followed(_, _)
Followed(ds, d) ==
    IF ds[d].state = "follows" THEN Followed(ds, ds[d].value) ELSE ds[d]

\* C40: when PromiseChain.execute is called again while an earlier callback
\* is still pending, every promise returned by the overlapping calls
\* settles with the outcome of the most recently submitted callback,
\* whichever of the callbacks finishes first.
C40_LatestCallbackSettlesAll ==
    [][\A d \in ExecuteIds :
          (/\ Followed(delegates, d).state = "pending"
           /\ Followed(delegates', d).state \in Outcomes)
              => /\ Followed(delegates', d).value = Submitted
                 /\ Followed(delegates', d).state
                       = chainCalls'[Submitted].outcome]_vars

====
